---- MODULE Spec2Model ----
(***************************************************************************)
(* Tic-tac-toe trainer: the minimax teacher (oracle and dataset builder),  *)
(* the board symmetries and the snapshot interface of the network.         *)
(*                                                                         *)
(* Numbers.  A probability is an integer number of units of 1/ProbUnit     *)
(* (ProbUnit = lcm(1..9), so 1/k is exact for every k <= 9).  The value    *)
(* returned by the oracle is an integer number of units of 1/SCORE_WIN.    *)
(* A board is a function from the cells 0..8 to "_", "X", "O".             *)
(***************************************************************************)
EXTENDS Integers, Sequences, FiniteSets, TLC

\* ------------------------------------------------------------------------
\* Bounds of the model
\* ------------------------------------------------------------------------
MaxCalls == 3
MaxMutations == 1
MaxPriorCalls == 1
\* symmetries: marks on a transformed board, applications of one transform
MaxMarks == 2
MaxApply == 4
MaxNetCalls == 4
MaxNetworks == 1
MaxTrainCalls == 2

\* ------------------------------------------------------------------------
\* gameLogic
\* ------------------------------------------------------------------------
Cells == 0..8
Marks == {"X", "O"}
Null == "null"

Board(t) == [i \in Cells |-> t[i + 1]]
EmptyBoard == [i \in Cells |-> "_"]

WINNING_LINES ==
  << <<0, 1, 2>>, <<3, 4, 5>>, <<6, 7, 8>>,
     <<0, 3, 6>>, <<1, 4, 7>>, <<2, 5, 8>>,
     <<0, 4, 8>>, <<2, 4, 6>> >>

\* a line counted as owned on its first two cells
lineOwnedFirstTwo(board, k) ==
  /\ board[WINNING_LINES[k][1]] # "_"
  /\ board[WINNING_LINES[k][1]] = board[WINNING_LINES[k][2]]

lineOwned(board, k) ==
  /\ board[WINNING_LINES[k][1]] # "_"
  /\ board[WINNING_LINES[k][1]] = board[WINNING_LINES[k][2]]
  /\ board[WINNING_LINES[k][2]] = board[WINNING_LINES[k][3]]

RECURSIVE scanLines(_, _)
scanLines(board, k) ==
  IF k > Len(WINNING_LINES) THEN Null
  ELSE IF lineOwned(board, k) THEN board[WINNING_LINES[k][1]]
  ELSE scanLines(board, k + 1)

computeWinner(board) == scanLines(board, 1)

isMoveValid(board, index) == board[index] = "_"

\* the same side moves again
nextSymbolSame(s) == s

nextSymbol(s) == IF s = "X" THEN "O" ELSE "X"

\* ------------------------------------------------------------------------
\* minimaxTeacher: helpers
\* ------------------------------------------------------------------------
SCORE_WIN == 10
NegInfinity == -1000000
ProbUnit == 5 * 7 * 8 * 9

applyMove(board, index, symbol) == [board EXCEPT ![index] = symbol]

\* a mask that marks every cell as playable
boardMaskAllOnes(board) == [i \in Cells |-> 1]

boardMask(board) == [i \in Cells |-> IF board[i] = "_" THEN 1 ELSE 0]

includesEmpty(board) == \E i \in Cells : board[i] = "_"

\* a terminal score counted for the winner instead of the side to move
terminalScoreForWinner(board, depth) ==
  IF computeWinner(board) # Null THEN <<SCORE_WIN - depth>>
  ELSE IF ~includesEmpty(board) THEN <<0>>
  ELSE <<>>

\* number | null is a sequence of length 1 | the empty sequence
terminalScore(board, depth) ==
  IF computeWinner(board) # Null THEN <<-(SCORE_WIN - depth)>>
  ELSE IF ~includesEmpty(board) THEN <<0>>
  ELSE <<>>

\* The map key `${board}|${turn}`: an injective code of (board, turn).
digit(c) == IF c = "_" THEN 0 ELSE IF c = "X" THEN 1 ELSE 2
boardCode(board) ==
  digit(board[0]) + 3 * digit(board[1]) + 9 * digit(board[2])
    + 27 * digit(board[3]) + 81 * digit(board[4]) + 243 * digit(board[5])
    + 729 * digit(board[6]) + 2187 * digit(board[7]) + 6561 * digit(board[8])
keyOf(board, turn) == 2 * boardCode(board) + (IF turn = "X" THEN 0 ELSE 1)

\* A Map is a function whose domain is the set of keys that have an entry.
EmptyMap == [k \in {} |-> 0]
has(map, key) == key \in DOMAIN map
set(map, key, value) ==
  IF key \in DOMAIN map THEN [map EXCEPT ![key] = value] ELSE map @@ (key :> value)

\* ------------------------------------------------------------------------
\* negamax with its memo cache (the cache is threaded through the recursion)
\* ------------------------------------------------------------------------
RECURSIVE negamax(_, _, _, _), negamaxLoop(_, _, _, _, _, _)
negamax(board, playerToMove, depth, cache) ==
  LET key == keyOf(board, playerToMove) IN
  IF has(cache, key) THEN [score |-> cache[key], cache |-> cache]
  ELSE LET terminal == terminalScore(board, depth) IN
       IF terminal # <<>>
       THEN [score |-> terminal[1], cache |-> set(cache, key, terminal[1])]
       ELSE LET r == negamaxLoop(board, playerToMove, depth, 0, NegInfinity, cache)
            IN [score |-> r.best, cache |-> set(r.cache, key, r.best)]

negamaxLoop(board, playerToMove, depth, i, best, cache) ==
  IF i >= 9 THEN [best |-> best, cache |-> cache]
  ELSE IF ~isMoveValid(board, i)
  THEN negamaxLoop(board, playerToMove, depth, i + 1, best, cache)
  ELSE LET nextBoard == applyMove(board, i, playerToMove)
           r == negamax(nextBoard, nextSymbol(playerToMove), depth + 1, cache)
           score == -r.score
       IN IF score > best
          THEN negamaxLoop(board, playerToMove, depth, i + 1, score, r.cache)
          ELSE negamaxLoop(board, playerToMove, depth, i + 1, best, r.cache)

\* ------------------------------------------------------------------------
\* minimaxPolicy with its policy cache
\* ------------------------------------------------------------------------
\* An array object: its identity (ref) and its elements.  ref 0 is an array
\* that only the caller holds; the array stored in the policy cache under
\* key k has ref k + 1.
ZerosAllOnes == [i \in Cells |-> 1]
Zeros == [i \in Cells |-> 0]
NewArray(ref, elems) == [ref |-> ref, elems |-> elems]
\* returning the cached array itself instead of a copy
sliceSameArray(array) == array

slice(array) == [ref |-> 0, elems |-> array.elems]

Max2(a, b) == IF a > b THEN a ELSE b
Min2(a, b) == IF a < b THEN a ELSE b

\* for (let i = 0; i < 9; i++) { ... scores[i] = score ... }
RECURSIVE scoreLoop(_, _, _, _, _, _, _)
scoreLoop(board, turn, mask, i, bestScore, scores, cache) ==
  IF i >= 9 THEN [bestScore |-> bestScore, scores |-> scores, cache |-> cache]
  ELSE IF mask[i] = 0
  THEN scoreLoop(board, turn, mask, i + 1, bestScore, scores, cache)
  ELSE LET nextBoard == applyMove(board, i, turn)
           r == negamax(nextBoard, nextSymbol(turn), 1, cache)
           score == -r.score
           scores2 == [scores EXCEPT ![i] = score]
       IN IF score > bestScore
          THEN scoreLoop(board, turn, mask, i + 1, score, scores2, r.cache)
          ELSE scoreLoop(board, turn, mask, i + 1, bestScore, scores2, r.cache)

\* a policy spread over every legal move instead of the best moves
spreadPolicyAllLegal(mask, scores, bestScore) ==
  LET legal == {i \in Cells : mask[i] = 1}
      p == IF Cardinality(legal) > 0 THEN ProbUnit \div Cardinality(legal) ELSE 0
  IN [i \in Cells |-> IF i \in legal THEN p ELSE 0]

\* bestMoves, p and the loop that fills policy
spreadPolicy(mask, scores, bestScore) ==
  LET bestMoves == {i \in Cells : mask[i] = 1 /\ scores[i] = bestScore}
      p == IF Cardinality(bestMoves) > 0
           THEN ProbUnit \div Cardinality(bestMoves) ELSE 0
  IN [i \in Cells |-> IF i \in bestMoves THEN p ELSE 0]

\* The result: the returned object {policy, mask, value} and the two caches
\* after the call.
minimaxPolicy(board, turn, nCache, pCache) ==
  LET key == keyOf(board, turn) IN
  IF has(pCache, key)
  THEN [policy |-> slice(pCache[key].policy),
        mask |-> NewArray(0, boardMask(board)),
        value |-> pCache[key].value,
        negamaxCache |-> nCache,
        policyCache |-> pCache]
  ELSE
    LET mask == boardMask(board)
        winner == computeWinner(board)
    IN
    IF winner # Null \/ ~includesEmpty(board)
    THEN LET zeros == NewArray(key + 1, Zeros)
         IN [policy |-> slice(zeros),
             mask |-> NewArray(0, mask),
             value |-> 0,
             negamaxCache |-> nCache,
             policyCache |-> set(pCache, key, [policy |-> zeros, value |-> 0])]
    ELSE
      LET r == scoreLoop(board, turn, mask, 0, NegInfinity,
                         [i \in Cells |-> NegInfinity], nCache)
          policy == NewArray(key + 1, spreadPolicy(mask, r.scores, r.bestScore))
          boundedValue == Max2(-SCORE_WIN, Min2(SCORE_WIN, r.bestScore))
      IN [policy |-> slice(policy),
          mask |-> NewArray(0, mask),
          value |-> boundedValue,
          negamaxCache |-> r.cache,
          policyCache |-> set(pCache, key, [policy |-> policy, value |-> boundedValue])]

\* ------------------------------------------------------------------------
\* Board symmetries
\* ------------------------------------------------------------------------
Arr(t) == [i \in Cells |-> t[i + 1]]

\* the table with the last two entries of the rot270 map exchanged
TRANSFORMSRot270Typo ==
  << [name |-> "id",     map |-> Arr(<<0, 1, 2, 3, 4, 5, 6, 7, 8>>)],
     [name |-> "rot90",  map |-> Arr(<<2, 5, 8, 1, 4, 7, 0, 3, 6>>)],
     [name |-> "rot180", map |-> Arr(<<8, 7, 6, 5, 4, 3, 2, 1, 0>>)],
     [name |-> "rot270", map |-> Arr(<<6, 3, 0, 7, 4, 1, 8, 2, 5>>)],
     [name |-> "flipTB", map |-> Arr(<<6, 7, 8, 3, 4, 5, 0, 1, 2>>)],
     [name |-> "flipLR", map |-> Arr(<<2, 1, 0, 5, 4, 3, 8, 7, 6>>)],
     [name |-> "diag",   map |-> Arr(<<0, 3, 6, 1, 4, 7, 2, 5, 8>>)],
     [name |-> "anti",   map |-> Arr(<<8, 5, 2, 7, 4, 1, 6, 3, 0>>)] >>

TRANSFORMS ==
  << [name |-> "id",     map |-> Arr(<<0, 1, 2, 3, 4, 5, 6, 7, 8>>)],
     [name |-> "rot90",  map |-> Arr(<<2, 5, 8, 1, 4, 7, 0, 3, 6>>)],
     [name |-> "rot180", map |-> Arr(<<8, 7, 6, 5, 4, 3, 2, 1, 0>>)],
     [name |-> "rot270", map |-> Arr(<<6, 3, 0, 7, 4, 1, 8, 5, 2>>)],
     [name |-> "flipTB", map |-> Arr(<<6, 7, 8, 3, 4, 5, 0, 1, 2>>)],
     [name |-> "flipLR", map |-> Arr(<<2, 1, 0, 5, 4, 3, 8, 7, 6>>)],
     [name |-> "diag",   map |-> Arr(<<0, 3, 6, 1, 4, 7, 2, 5, 8>>)],
     [name |-> "anti",   map |-> Arr(<<8, 5, 2, 7, 4, 1, 6, 3, 0>>)] >>

\* for (let i = 0; i < 9; i++) out[map[i]] = board[i]
RECURSIVE transformBoardLoop(_, _, _, _)
transformBoardLoop(board, map, i, out) ==
  IF i >= 9 THEN out
  ELSE transformBoardLoop(board, map, i + 1, [out EXCEPT ![map[i]] = board[i]])

transformBoard(board, map) == transformBoardLoop(board, map, 0, [i \in Cells |-> "_"])

\* for (let i = 0; i < 9; i++) out[map[i]] += dist[i]
RECURSIVE transformDistLoop(_, _, _, _)
transformDistLoop(dist, map, i, out) ==
  IF i >= 9 THEN out
  ELSE transformDistLoop(dist, map, i + 1, [out EXCEPT ![map[i]] = @ + dist[i]])

\* moving probabilities against the map: out[i] += dist[map[i]]
transformDistAgainstMap(dist, map) == [i \in Cells |-> dist[map[i]]]

transformDist(dist, map) == transformDistLoop(dist, map, 0, Zeros)

\* ------------------------------------------------------------------------
\* generateTeacherDataset
\* ------------------------------------------------------------------------
\* walk: acc is [seen, states]
RECURSIVE walk(_, _, _), walkLoop(_, _, _, _)
walk(board, turn, acc) ==
  LET key == keyOf(board, turn) IN
  IF key \in acc.seen THEN acc
  ELSE LET seen2 == acc.seen \cup {key} IN
       IF computeWinner(board) # Null \/ ~includesEmpty(board)
       THEN [seen |-> seen2, states |-> acc.states]
       ELSE walkLoop(board, turn, 0,
                     [seen |-> seen2,
                      states |-> Append(acc.states, [board |-> board, turn |-> turn])])

\* a loop that returns after the first legal move instead of trying them all
walkLoopFirstMoveOnly(board, turn, i, acc) ==
  IF i >= 9 THEN acc
  ELSE IF ~isMoveValid(board, i) THEN walkLoop(board, turn, i + 1, acc)
  ELSE walk(applyMove(board, i, turn), nextSymbol(turn), acc)

walkLoop(board, turn, i, acc) ==
  IF i >= 9 THEN acc
  ELSE IF ~isMoveValid(board, i) THEN walkLoop(board, turn, i + 1, acc)
  ELSE LET acc2 == walk(applyMove(board, i, turn), nextSymbol(turn), acc)
       IN IF acc2.seen # {} THEN walkLoop(board, turn, i + 1, acc2) ELSE acc2

\* for (const t of TRANSFORMS) { ... }: st is [negamaxCache, policyCache, dedupe, out]
RECURSIVE augmentLoop(_, _, _, _)
augmentLoop(s, label, j, st) ==
  IF j > Len(TRANSFORMS) THEN st
  ELSE LET t == TRANSFORMS[j]
           b2 == transformBoard(s.board, t.map)
           p2 == transformDist(label.policy.elems, t.map)
           m2 == boardMask(b2)
           k == keyOf(b2, s.turn)
       IN IF k \in st.dedupe THEN augmentLoop(s, label, j + 1, st)
          ELSE augmentLoop(s, label, j + 1,
                 [st EXCEPT !.dedupe = @ \cup {k},
                            !.out = Append(@, [board |-> b2, turn |-> s.turn, policy |-> p2,
                                               mask |-> m2, value |-> label.value])])

\* the body of for (const s of states) { ... }
labelState(s, augmentSymmetries, st) ==
  LET label == minimaxPolicy(s.board, s.turn, st.negamaxCache, st.policyCache)
      st1 == [st EXCEPT !.negamaxCache = label.negamaxCache,
                        !.policyCache = label.policyCache]
      k == keyOf(s.board, s.turn)
  IN IF ~augmentSymmetries
     THEN IF k \notin st1.dedupe
          THEN [st1 EXCEPT !.dedupe = @ \cup {k},
                           !.out = Append(@, [board |-> s.board, turn |-> s.turn,
                                              policy |-> label.policy.elems,
                                              mask |-> label.mask.elems,
                                              value |-> label.value])]
          ELSE st1
     ELSE augmentLoop(s, label, 1, st1)

\* for (const s of states): states[lo..hi] in order
RECURSIVE labelStates(_, _, _, _, _)
labelStates(states, augmentSymmetries, lo, hi, st) ==
  IF lo > hi THEN st
  ELSE IF lo = hi THEN labelState(states[lo], augmentSymmetries, st)
  ELSE LET mid == (lo + hi) \div 2
           st1 == labelStates(states, augmentSymmetries, lo, mid, st)
       IN IF st1.dedupe # {} THEN labelStates(states, augmentSymmetries, mid + 1, hi, st1)
          ELSE st1

generateTeacherDataset(augmentSymmetries, nCache, pCache) ==
  LET walked == walk(EmptyBoard, "X", [seen |-> {}, states |-> <<>>])
  IN labelStates(walked.states, augmentSymmetries, 1, Len(walked.states),
                 [negamaxCache |-> nCache, policyCache |-> pCache, dedupe |-> {}, out |-> <<>>])

\* ------------------------------------------------------------------------
\* State
\* ------------------------------------------------------------------------
VARIABLES
  negamaxCache,   \* Map<string, number> of negamax
  policyCache,    \* Map<string, {policy, value}> of minimaxPolicy
  last,           \* the last minimaxPolicy call: its arguments and what it returned
  held,           \* the arrays of the last result, as the caller now holds them
  answers,        \* what the first call with each key returned
  calls,          \* number of oracle calls made
  mutations,      \* number of writes the caller made to returned arrays
  dataset,        \* what generateTeacherDataset last returned, and with which option
  sym,            \* a board, the transform applied to it and how often
  heap,           \* the arrays and config objects of the networks, by reference
  networks,       \* the NeuralNetwork objects, by name
  snapshot,       \* the object the last getSnapshot returned
  netCalls,       \* the calls made on the networks, in order
  output,         \* what the last forward or predict call returned
  page            \* the page shown: its React state, refs, timers and loops

oracleVars == <<negamaxCache, policyCache, last, held, answers, calls, mutations>>
netVars == <<heap, networks, snapshot, netCalls, output>>
otherVars == <<sym, netVars, page>>
vars == <<oracleVars, dataset, otherVars>>

NoCall ==
  [called |-> FALSE, board |-> EmptyBoard, turn |-> "X",
   policy |-> Zeros, mask |-> Zeros, value |-> 0, repeat |-> "none"]
NoArrays == [policy |-> NewArray(0, Zeros), mask |-> NewArray(0, Zeros)]

NoDataset == [generated |-> FALSE, augmentSymmetries |-> FALSE, out |-> <<>>]
NoSym == [original |-> EmptyBoard, board |-> EmptyBoard, t |-> 1, count |-> 0, then |-> 0]
\* no page is mounted
NoPage == [name |-> "none"]
NoSnapshot ==
  [taken |-> FALSE, config |-> 0, weights |-> <<>>, biases |-> <<>>,
   valueHeadWeights |-> 0, valueHeadBiases |-> 0, trainingCount |-> 0]
NoOutput ==
  [op |-> "none", net |-> 0, input |-> <<>>, mask |-> <<>>, policy |-> <<>>,
   value |-> [tanh |-> 0], move |-> -1, at |-> 0]
\* no network has been constructed
NoNetworks ==
  /\ heap = <<>>
  /\ networks = <<>>
  /\ snapshot = NoSnapshot
  /\ netCalls = <<>>
  /\ output = NoOutput

OracleInit ==
  /\ negamaxCache = EmptyMap
  /\ policyCache = EmptyMap
  /\ last = NoCall
  /\ held = NoArrays
  /\ answers = EmptyMap
  /\ calls = 0
  /\ mutations = 0
  /\ dataset = NoDataset

\* A call minimaxPolicy(board, turn) by some caller.
MinimaxPolicyCall(board, turn) ==
  /\ calls < MaxCalls
  /\ \E r \in {minimaxPolicy(board, turn, negamaxCache, policyCache)},
        key \in {keyOf(board, turn)} :
        /\ negamaxCache' = r.negamaxCache
        /\ policyCache' = r.policyCache
        /\ last' = [called |-> TRUE, board |-> board, turn |-> turn,
                    policy |-> r.policy.elems, mask |-> r.mask.elems, value |-> r.value,
                    repeat |-> IF key \notin DOMAIN answers THEN "first"
                               ELSE IF answers[key].mutated THEN "afterMutation"
                               ELSE "again"]
        /\ held' = [policy |-> r.policy, mask |-> r.mask]
        /\ answers' =
             IF key \in DOMAIN answers THEN answers
             ELSE answers @@ (key :> [policy |-> r.policy.elems, mask |-> r.mask.elems,
                                      value |-> r.value, mutated |-> FALSE])
  /\ calls' = calls + 1
  /\ UNCHANGED <<mutations, dataset, otherVars>>

\* The caller writes into an array it was handed: held.policy[i] = v or
\* held.mask[i] = v.  An array shared with the policy cache changes there too.
MutateReturned(field, i, v) ==
  /\ last.called
  /\ mutations < MaxMutations
  /\ held[field].elems[i] # v
  /\ held' = [held EXCEPT ![field].elems[i] = v]
  /\ policyCache' =
       IF held[field].ref = 0 THEN policyCache
       ELSE [policyCache EXCEPT ![held[field].ref - 1].policy.elems[i] = v]
  /\ answers' = [answers EXCEPT ![keyOf(last.board, last.turn)].mutated = TRUE]
  /\ mutations' = mutations + 1
  /\ UNCHANGED <<negamaxCache, last, calls, dataset, otherVars>>

\* A call generateTeacherDataset({augmentSymmetries}).
GenerateTeacherDatasetCall(augmentSymmetries) ==
  /\ calls < MaxCalls
  /\ ~dataset.generated
  /\ \E r \in {generateTeacherDataset(augmentSymmetries, negamaxCache, policyCache)} :
       /\ negamaxCache' = r.negamaxCache
       /\ policyCache' = r.policyCache
       /\ dataset' = [generated |-> TRUE, augmentSymmetries |-> augmentSymmetries,
                      out |-> r.out]
  /\ calls' = calls + 1
  /\ UNCHANGED <<last, held, answers, mutations, otherVars>>

\* ------------------------------------------------------------------------
\* The oracle called in any order on a sample of positions
\* ------------------------------------------------------------------------
\* X_X / _O_ / ___ with O to move, and positions below it.
QueryStates ==
  { <<Board(<<"X","_","X", "_","O","_", "_","_","_">>), "O">>,
    <<Board(<<"X","_","X", "_","O","_", "_","_","O">>), "X">>,
    <<Board(<<"X","_","X", "_","O","_", "X","_","O">>), "O">>,
    <<Board(<<"X","O","X", "_","O","_", "X","_","O">>), "X">>,
    <<Board(<<"X","X","X", "_","O","_", "_","_","O">>), "O">>,
    <<Board(<<"X","O","X", "X","O","O", "O","X","X">>), "O">>,
    <<Board(<<"X","_","X", "_","O","_", "_","_","O">>), "O">> }

Init == OracleInit /\ sym = NoSym /\ page = NoPage /\ NoNetworks

\* what a caller writes into a returned array
MutationValues == {7}
MutatedCells == {0, 1}

Next ==
  \/ \E q \in QueryStates : MinimaxPolicyCall(q[1], q[2])
  \/ \E f \in {"policy", "mask"}, i \in MutatedCells, v \in MutationValues :
       MutateReturned(f, i, v)

Spec == Init /\ [][Next]_vars

\* ------------------------------------------------------------------------
\* The dataset builder, called once after at most MaxPriorCalls oracle calls
\* and followed by oracle calls
\* ------------------------------------------------------------------------
DatasetPriorStates ==
  { <<Board(<<"X","_","X", "_","O","_", "X","_","O">>), "O">> }

DatasetQueryStates ==
  { <<EmptyBoard, "X">>,
    <<Board(<<"X","_","_", "_","_","_", "_","_","_">>), "O">>,
    <<Board(<<"X","_","X", "_","O","_", "_","_","_">>), "O">>,
    <<Board(<<"X","_","X", "_","O","_", "_","_","O">>), "X">>,
    <<Board(<<"X","_","X", "_","O","_", "X","_","O">>), "O">>,
    <<Board(<<"X","X","X", "_","O","_", "_","_","O">>), "O">>,
    <<Board(<<"X","O","X", "X","O","O", "O","X","X">>), "O">> }

DatasetPriorCall ==
  /\ ~dataset.generated
  /\ calls < MaxPriorCalls
  /\ \E q \in DatasetPriorStates :
       /\ keyOf(q[1], q[2]) \notin DOMAIN answers
       /\ MinimaxPolicyCall(q[1], q[2])

DatasetLaterCall ==
  /\ dataset.generated
  /\ \E q \in DatasetQueryStates : MinimaxPolicyCall(q[1], q[2])

DatasetNext ==
  \/ DatasetPriorCall
  \/ \E augmentSymmetries \in BOOLEAN : GenerateTeacherDatasetCall(augmentSymmetries)
  \/ DatasetLaterCall

SpecDataset == Init /\ [][DatasetNext]_vars

\* ------------------------------------------------------------------------
\* The game itself: the positions reachable from the empty board with X first
\* by legal alternating moves that stop at the first win, and their outcome
\* under optimal play by both sides.  Positions are named by their board code.
\* ------------------------------------------------------------------------
isTerminal(board) == computeWinner(board) # Null \/ ~includesEmpty(board)

Pow3 == Arr(<<1, 3, 9, 27, 81, 243, 729, 2187, 6561>>)
cellOfCode(code, i) == (code \div Pow3[i]) % 3
symbolOf(d) == IF d = 0 THEN "_" ELSE IF d = 1 THEN "X" ELSE "O"
boardOfCode(code) == [i \in Cells |-> symbolOf(cellOfCode(code, i))]
boardOfKey(key) == boardOfCode(key \div 2)
turnOfKey(key) == IF key % 2 = 0 THEN "X" ELSE "O"

\* the side to move on a reachable board with n marks
turnAt(n) == IF n % 2 = 0 THEN "X" ELSE "O"

successorCodes(codes, mark) ==
  UNION { {c + digit(mark) * Pow3[i] : i \in {j \in Cells : cellOfCode(c, j) = 0}} :
          c \in {d \in codes : ~isTerminal(boardOfCode(d))} }

RECURSIVE reachFrom(_, _)
reachFrom(n, codes) ==
  IF n = 9 THEN <<codes>>
  ELSE <<codes>> \o reachFrom(n + 1, successorCodes(codes, turnAt(n)))

\* ReachLevels[n + 1]: the codes of the reachable boards with n marks
ReachLevels == reachFrom(0, {0})

\* the keys of the reachable (board, side to move) pairs
ReachableKeys ==
  UNION { {2 * c + (n % 2) : c \in ReachLevels[n + 1]} : n \in 0..9 }

NonTerminalKeys == {k \in ReachableKeys : ~isTerminal(boardOfKey(k))}

\* value of a position for the side to move: 1 win, 0 draw, -1 loss
valueFrom(code, mark, below) ==
  IF computeWinner(boardOfCode(code)) # Null THEN -1
  ELSE IF \A i \in Cells : cellOfCode(code, i) # 0 THEN 0
  ELSE LET replies == {-below[code + digit(mark) * Pow3[i]] :
                         i \in {j \in Cells : cellOfCode(code, j) = 0}}
       IN CHOOSE v \in replies : \A w \in replies : v >= w

RECURSIVE valuesFrom(_)
valuesFrom(n) ==
  IF n = 9 THEN [c \in ReachLevels[10] |-> valueFrom(c, turnAt(9), <<>>)]
  ELSE LET below == valuesFrom(n + 1)
       IN [c \in ReachLevels[n + 1] |-> valueFrom(c, turnAt(n), below)] @@ below

\* GameValues[c]: the value of the reachable board with code c
GameValues == valuesFrom(0)
gameValue(board) == GameValues[boardCode(board)]

\* ------------------------------------------------------------------------
\* One call on any reachable position, after at most MaxPriorCalls calls on
\* different positions of PriorStates
\* ------------------------------------------------------------------------
PriorStates ==
  { <<EmptyBoard, "X">>,
    <<Board(<<"X","O","_", "_","_","_", "_","_","_">>), "X">> }

PriorKeys == {keyOf(q[1], q[2]) : q \in PriorStates}

EveryCall(key) ==
  /\ calls <= MaxPriorCalls
  /\ DOMAIN answers \subseteq PriorKeys
  /\ calls = Cardinality(DOMAIN answers)
  /\ MinimaxPolicyCall(boardOfKey(key), turnOfKey(key))

EveryNext == \E key \in ReachableKeys : EveryCall(key)

SpecEvery == Init /\ [][EveryNext]_vars

\* ------------------------------------------------------------------------
\* Properties of the oracle
\* ------------------------------------------------------------------------
lastKey == keyOf(last.board, last.turn)
lastLegal == {i \in Cells : last.board[i] = "_"}
lastNonTerminal == last.called /\ lastKey \in NonTerminalKeys

\* the memoised negamax scores of the legal moves of the last call, for the
\* side to move
lastScores ==
  [i \in lastLegal |->
     -negamaxCache[keyOf(applyMove(last.board, i, last.turn), nextSymbol(last.turn))]]
bestOf(scores) == {i \in DOMAIN scores : \A j \in DOMAIN scores : scores[i] >= scores[j]}
lastBest == bestOf(lastScores)

RECURSIVE sumOver(_, _)
sumOver(f, cells) ==
  IF cells = {} THEN 0
  ELSE LET i == CHOOSE j \in cells : TRUE IN f[i] + sumOver(f, cells \ {i})

\* C1: on every reachable non-terminal position the policy gives the same
\* positive probability 1/k to each of the k legal moves whose negamax score
\* is the best score and 0 to every other cell; it sums to 1 over the cells
\* with mask 1 and is 0 on every filled cell.  Every move with positive
\* probability keeps the outcome of the position under optimal play.
C1_PolicyUniformOverBestMoves ==
  lastNonTerminal =>
    \E best \in {lastBest} :
      /\ best # {}
      /\ \A i \in Cells :
           /\ i \in best => /\ last.policy[i] > 0
                            /\ last.policy[i] * Cardinality(best) = ProbUnit
           /\ i \notin best => last.policy[i] = 0
      /\ sumOver(last.policy, {i \in Cells : last.mask[i] = 1}) = ProbUnit
      /\ \A i \in Cells : last.board[i] # "_" => last.policy[i] = 0
      /\ \A i \in Cells :
           last.policy[i] > 0 =>
             gameValue(applyMove(last.board, i, last.turn)) = -gameValue(last.board)

\* a position with several best moves and a legal move that is not best
C1_Witness ==
  /\ lastNonTerminal
  /\ \E best \in {lastBest} :
       /\ Cardinality(best) >= 2
       /\ lastLegal \ best # {}
       /\ \A i \in best : last.policy[i] * Cardinality(best) = ProbUnit

sign(x) == IF x > 0 THEN 1 ELSE IF x < 0 THEN -1 ELSE 0

\* C2: on every reachable non-terminal position the value is the best move
\* score divided by SCORE_WIN, lies in [-1, 1], and has the sign of the
\* outcome for the side to move under optimal play by both sides.
C2_ValueIsOutcome ==
  lastNonTerminal =>
    /\ \E scores \in {lastScores} : \A i \in bestOf(scores) : last.value = scores[i]
    /\ -SCORE_WIN <= last.value /\ last.value <= SCORE_WIN
    /\ sign(last.value) = gameValue(last.board)

\* the side to move loses against optimal play and the value says so
C2_Witness ==
  /\ lastNonTerminal
  /\ gameValue(last.board) = -1
  /\ last.value < 0

\* C4: on the empty board with X to move the value is 0 and each of the 9
\* opening moves has the same positive probability 1/9.
C4_EmptyBoard ==
  (last.called /\ last.board = EmptyBoard /\ last.turn = "X") =>
    /\ last.value = 0
    /\ \A i \in Cells : last.policy[i] > 0 /\ last.policy[i] * 9 = ProbUnit

\* the opening position was asked after another position
C4_Witness ==
  /\ last.called /\ last.board = EmptyBoard /\ last.turn = "X"
  /\ calls = 2
  /\ last.repeat = "first"
  /\ last.value = 0

\* C6: the mask has 1 exactly at the empty cells of the board and 0 at every
\* filled cell, for terminal and non-terminal boards, on a first call and on
\* a repeated call.
C6_MaskIsEmptyCells ==
  last.called =>
    \A i \in Cells : /\ last.mask[i] \in {0, 1}
                     /\ last.mask[i] = 1 <=> last.board[i] = "_"

\* a repeated call on a board with filled and empty cells
C6_Witness ==
  /\ last.called
  /\ last.repeat = "again"
  /\ \E i, j \in Cells : last.mask[i] = 1 /\ last.mask[j] = 0 /\ last.board[j] = "O"

\* the legal moves that complete a line for the side to move
lastWinningMoves ==
  {i \in lastLegal : computeWinner(applyMove(last.board, i, last.turn)) = last.turn}

\* C3: on a board where exactly one legal move wins at once for the side to
\* move, that move has probability 1 and the value is that of a win at the
\* next move (the largest score a win can have, or 1), whatever was asked
\* before.
C3_ForcedWin ==
  (lastNonTerminal /\ Cardinality(lastWinningMoves) = 1) =>
    /\ \A w \in lastWinningMoves : last.policy[w] = ProbUnit
    /\ last.value \in {SCORE_WIN - 1, SCORE_WIN}

\* C5: a call with a board and turn that were asked before returns the same
\* policy, mask and value as the first call did, whatever was asked in
\* between and whatever the caller wrote into the arrays it got back.
C5_RepeatedCallsAgree ==
  (last.called /\ last.repeat # "first") =>
    /\ lastKey \in DOMAIN answers
    /\ last.policy = answers[lastKey].policy
    /\ last.mask = answers[lastKey].mask
    /\ last.value = answers[lastKey].value

\* a position asked again after the caller wrote into the policy it got back
\* from the first call, with another position asked in between
C5_Witness ==
  /\ last.called
  /\ last.repeat = "afterMutation"
  /\ mutations > 0
  /\ Cardinality(DOMAIN answers) >= 2
  /\ held.policy.elems = answers[lastKey].policy

\* ------------------------------------------------------------------------
\* Properties of the dataset builder
\* ------------------------------------------------------------------------
outKeys == {keyOf(dataset.out[j].board, dataset.out[j].turn) : j \in 1..Len(dataset.out)}

\* C7: without augmentation the dataset has exactly one entry for each
\* non-terminal (board, turn) reachable from the empty board with X first,
\* no entry for a terminal state, no pair twice, and each entry carries the
\* policy, mask and value that minimaxPolicy returns for its board and turn.
C7_DatasetIsReachableStates ==
  (dataset.generated /\ ~dataset.augmentSymmetries) =>
    /\ outKeys = NonTerminalKeys
    /\ Len(dataset.out) = Cardinality(NonTerminalKeys)
    /\ \A j \in 1..Len(dataset.out) :
         /\ computeWinner(dataset.out[j].board) = Null
         /\ includesEmpty(dataset.out[j].board)
         /\ \E r \in {minimaxPolicy(dataset.out[j].board, dataset.out[j].turn,
                                    negamaxCache, policyCache)} :
              /\ dataset.out[j].policy = r.policy.elems
              /\ dataset.out[j].mask = r.mask.elems
              /\ dataset.out[j].value = r.value

\* the dataset built without augmentation, starting with the opening position
C7_Witness ==
  /\ dataset.generated /\ ~dataset.augmentSymmetries
  /\ Len(dataset.out) > 1
  /\ dataset.out[1].board = EmptyBoard
  /\ dataset.out[1].policy = [i \in Cells |-> ProbUnit \div 9]

\* entry e is the image under TRANSFORMS[t] of a labelled state
isImageUnder(e, t) ==
  LET map == TRANSFORMS[t].map
      source == [i \in Cells |-> e.board[map[i]]]
      key == keyOf(source, e.turn)
  IN /\ key \in NonTerminalKeys
     /\ transformBoard(source, map) = e.board
     /\ has(policyCache, key)
     /\ \A i \in Cells : e.policy[map[i]] = policyCache[key].policy.elems[i]
     /\ e.value = policyCache[key].value

\* C8: with augmentation no two entries have the same (board, turn); each
\* entry's mask is the empty-cell indicator of its own board; its policy is
\* the policy of a labelled state with each probability moved to the permuted
\* cell, is 0 on every filled cell and sums to 1.
C8_AugmentedDataset ==
  (dataset.generated /\ dataset.augmentSymmetries) =>
    /\ Cardinality(outKeys) = Len(dataset.out)
    /\ \A j \in 1..Len(dataset.out) :
         /\ \A i \in Cells :
              /\ dataset.out[j].mask[i] = (IF dataset.out[j].board[i] = "_" THEN 1 ELSE 0)
              /\ dataset.out[j].board[i] # "_" => dataset.out[j].policy[i] = 0
         /\ sumOver(dataset.out[j].policy, Cells) = ProbUnit
         /\ \E t \in 1..Len(TRANSFORMS) : isImageUnder(dataset.out[j], t)

\* an augmented dataset with an entry that is the rot90 image of the entry
\* before it, with a policy that the rotation moves to other cells
C8_Witness ==
  /\ dataset.generated /\ dataset.augmentSymmetries
  /\ \E j \in 1..8 :
       /\ j + 1 <= Len(dataset.out)
       /\ dataset.out[j + 1].board = transformBoard(dataset.out[j].board, TRANSFORMS[2].map)
       /\ isImageUnder(dataset.out[j + 1], 2)
       /\ dataset.out[j + 1].policy # dataset.out[j].policy

\* ------------------------------------------------------------------------
\* transformBoard applied repeatedly to a board
\* ------------------------------------------------------------------------
SymBoards ==
  {b \in [Cells -> Marks \cup {"_"}] : Cardinality({i \in Cells : b[i] # "_"}) <= MaxMarks}

SymInit ==
  /\ OracleInit
  /\ NoNetworks
  /\ page = NoPage
  /\ sym \in {[original |-> b, board |-> b, t |-> t, count |-> 0, then |-> 0] :
                b \in SymBoards, t \in 1..Len(TRANSFORMS)}

\* board = transformBoard(board, t.map) with the chosen transform t
ApplyTransform ==
  /\ sym.count < MaxApply
  /\ sym.then = 0
  /\ sym' = [sym EXCEPT !.board = transformBoard(sym.board, TRANSFORMS[sym.t].map),
                        !.count = @ + 1]
  /\ UNCHANGED <<oracleVars, dataset, netVars, page>>

\* after one application of t: board = transformBoard(board, u.map)
ApplyTransformThen(u) ==
  /\ sym.count = 1
  /\ sym.then = 0
  /\ sym' = [sym EXCEPT !.board = transformBoard(sym.board, TRANSFORMS[u].map),
                        !.then = u]
  /\ UNCHANGED <<oracleVars, dataset, netVars, page>>

SymNext ==
  \/ ApplyTransform
  \/ \E u \in 1..Len(TRANSFORMS) : ApplyTransformThen(u)

SpecSym == SymInit /\ [][SymNext]_vars

Reflections == {"flipTB", "flipLR", "diag", "anti"}

\* C9: each of the 8 TRANSFORMS maps is a permutation of the 9 cells; rot90
\* applied four times and each reflection applied twice give back the board
\* they started from, and rot270 applied after rot90 gives it back too.
C9_TransformsInvert ==
  /\ Len(TRANSFORMS) = 8
  /\ \A k \in 1..Len(TRANSFORMS) :
       /\ DOMAIN TRANSFORMS[k].map = Cells
       /\ {TRANSFORMS[k].map[i] : i \in Cells} = Cells
  /\ (TRANSFORMS[sym.t].name = "rot90" /\ sym.count = 4 /\ sym.then = 0)
       => sym.board = sym.original
  /\ (TRANSFORMS[sym.t].name \in Reflections /\ sym.count = 2 /\ sym.then = 0)
       => sym.board = sym.original
  /\ (TRANSFORMS[sym.t].name = "rot90" /\ sym.count = 1 /\ sym.then # 0)
       => (TRANSFORMS[sym.then].name = "rot270" => sym.board = sym.original)

\* a board that rot90 changes, back where it started after four rot90
C9_Witness ==
  /\ TRANSFORMS[sym.t].name = "rot90"
  /\ sym.count = 4
  /\ sym.original[0] = "X" /\ sym.original[1] = "O"
  /\ transformBoard(sym.original, TRANSFORMS[sym.t].map) # sym.original
  /\ sym.board = sym.original

\* ------------------------------------------------------------------------
\* neuralNetwork.ts: the network.  Arrays are 1-based sequences here (the
\* code's index i is i + 1).  Numbers are integers: the learning rates,
\* inputs and gradients below are whole, so every update is exact.  Arrays
\* and config objects live in a heap and are named by reference, so that a
\* write through one name is seen through every other name of the object.
\* softmax and tanh are kept symbolic: a policy is the vector of exponents
\* e with p[i] = exp(e[i]) / sum of exp(e[k]), a value is tanh of a sum.
\* ------------------------------------------------------------------------
NetConfig ==
  [inputSize |-> 2, hiddenLayers |-> <<2>>, outputSize |-> 2, learningRate |-> 1,
   valueLossWeight |-> 1, weightDecay |-> 0, gradientClip |-> 2, dropout |-> 0]

\* the -1e9 softmax gives a masked logit
MaskedLogit == -1000000000

alloc(h, object) == [heap |-> Append(h, object), ref |-> Len(h) + 1]
vector(n, v) == [i \in 1..n |-> v]

\* Math.random() of the Layer constructor: the seed decides the draw
randomWeight(seed, i, j) == ((seed + i + 2 * j) % 3) - 1

\* new Layer(inputSize, outputSize); Array(n) throws a RangeError when n < 0
Layer(h, inputSize, outputSize, seed) ==
  LET weights == alloc(h, [i \in 1..inputSize |->
                             [j \in 1..outputSize |-> randomWeight(seed, i, j)]])
      biases == alloc(weights.heap, vector(outputSize, 0))
  IN [heap |-> biases.heap, layer |-> [weights |-> weights.ref, biases |-> biases.ref],
      threw |-> inputSize < 0 \/ outputSize < 0]

\* the loop that pushes the trunk layers
RECURSIVE pushLayers(_, _, _, _, _)
pushLayers(h, hiddenSizes, i, seed, layers) ==
  IF i > Len(hiddenSizes) - 1 THEN [heap |-> h, layers |-> layers, threw |-> FALSE]
  ELSE LET made == Layer(h, hiddenSizes[i], hiddenSizes[i + 1], seed + i)
       IN IF made.threw THEN [heap |-> h, layers |-> layers, threw |-> TRUE]
          ELSE pushLayers(made.heap, hiddenSizes, i + 1, seed, Append(layers, made.layer))

\* new NeuralNetwork(config), config being a reference to the caller's object
NeuralNetwork(h, config, seed) ==
  LET c == h[config]
      hiddenSizes == <<c.inputSize>> \o c.hiddenLayers
      trunk == pushLayers(h, hiddenSizes, 1, seed, <<>>)
      lastHidden == IF Len(hiddenSizes) > 0 THEN hiddenSizes[Len(hiddenSizes)]
                    ELSE c.inputSize
      policyLayer == Layer(trunk.heap, lastHidden, c.outputSize, seed + Len(hiddenSizes))
      valueHead == Layer(policyLayer.heap, lastHidden, 1, seed + Len(hiddenSizes) + 1)
  IN [heap |-> valueHead.heap,
      threw |-> trunk.threw \/ policyLayer.threw \/ valueHead.threw,
      net |-> [config |-> config,
               layers |-> Append(trunk.layers, policyLayer.layer),
               valueHead |-> valueHead.layer,
               trainingCount |-> 0,
               valueLossWeight |-> c.valueLossWeight,
               weightDecay |-> c.weightDecay,
               gradientClip |-> c.gradientClip,
               currentLearningRate |-> c.learningRate,
               dropout |-> c.dropout,
               isTraining |-> FALSE]]

relu(x) == Max2(0, x)
reluDerivative(x) == IF x > 0 THEN 1 ELSE 0
clipGradientOff(net, grad) == grad
clipGradient(net, grad) == Max2(-net.gradientClip, Min2(net.gradientClip, grad))

RECURSIVE maxOf(_, _)
maxOf(values, n) ==
  IF n = 1 THEN values[1] ELSE Max2(maxOf(values, n - 1), values[n])

\* Math.exp(x) on the log scale: the result is written as its logarithm x,
\* and every x below ExpUnderflow gives the one result 0, written
\* ExpUnderflow - 1
ExpUnderflow == -745
exp(x) == Max2(x, ExpUnderflow - 1)

\* mask <<>> is the omitted argument.  The entries returned are the exps, on
\* the log scale; dividing them all by their sum (which is at least 1, the
\* exp of the largest entry) keeps their order and keeps 0 at 0
softmax(logits, mask) ==
  LET adjusted == [i \in 1..Len(logits) |->
                     IF mask # <<>> /\ mask[i] = 0 THEN MaskedLogit ELSE logits[i]]
      maxLogit == maxOf(adjusted, Len(adjusted))
  IN [i \in 1..Len(adjusted) |-> exp(adjusted[i] - maxLogit)]

tanh(x) == [tanh |-> x]

\* a dropout rate is written in halves: dropout 1 is the rate 0.5
DropoutUnit == 2

\* keep[i] is Math.random() > this.dropout for unit i
generateDropoutMask(net, size, keep) ==
  IF ~net.isTraining \/ net.dropout <= 0 THEN vector(size, 1)
  ELSE [i \in 1..size |->
          IF keep[i] THEN DropoutUnit \div (DropoutUnit - net.dropout) ELSE 0]

\* sum += activation[i] * weights[i][j], for i up to n
RECURSIVE weightedSum(_, _, _, _, _)
weightedSum(sum, activation, weights, j, n) ==
  IF n = 0 THEN sum
  ELSE weightedSum(sum, activation, weights, j, n - 1) + activation[n] * weights[n][j]

\* the hidden trunk of forward; acts collects what each layer caches
RECURSIVE forwardTrunk(_, _, _, _, _, _)
forwardTrunk(h, net, l, activation, keep, acts) ==
  IF l > Len(net.layers) - 1 THEN [activation |-> activation, layers |-> acts]
  ELSE LET weights == h[net.layers[l].weights]
           biases == h[net.layers[l].biases]
           next == [j \in 1..Len(weights[1]) |->
                      relu(weightedSum(biases[j], activation, weights, j, Len(activation)))]
           dropoutMask == generateDropoutMask(net, Len(next), keep)
           droppedNext == [i \in 1..Len(next) |-> next[i] * dropoutMask[i]]
       IN forwardTrunk(h, net, l + 1, droppedNext, keep,
                       Append(acts, [inputActivation |-> activation,
                                     outputActivation |-> droppedNext]))

forward(h, net, input, mask, keep) ==
  LET trunk == forwardTrunk(h, net, 1, input, keep, <<>>)
      lastHiddenActivation == trunk.activation
      policyLayer == net.layers[Len(net.layers)]
      weights == h[policyLayer.weights]
      policyLogits == [j \in 1..Len(weights[1]) |->
                         weightedSum(h[policyLayer.biases][j], lastHiddenActivation,
                                     weights, j, Len(lastHiddenActivation))]
      valueSum == weightedSum(h[net.valueHead.biases][1], lastHiddenActivation,
                              h[net.valueHead.weights], 1, Len(lastHiddenActivation))
  IN [policy |-> softmax(policyLogits, mask), value |-> tanh(valueSum),
      lastHiddenActivation |-> lastHiddenActivation, layers |-> trunk.layers]

\* weights[i][j] = weights[i][j] * (1 - lr * weightDecay) - lr * grad, for the
\* i and j the loops of backward visit
stepWeights(net, weights, activation, delta) ==
  LET lr == net.currentLearningRate
  IN [i \in 1..Len(weights) |-> [j \in 1..Len(weights[i]) |->
        IF i <= Len(activation) /\ j <= Len(delta)
        THEN weights[i][j] * (1 - lr * net.weightDecay)
               - lr * clipGradient(net, delta[j] * activation[i])
        ELSE weights[i][j]]]

\* biases[j] -= lr * grad
stepBiases(net, biases, delta) ==
  [j \in 1..Len(biases) |->
     IF j <= Len(delta) THEN biases[j] - net.currentLearningRate * clipGradient(net, delta[j])
     ELSE biases[j]]

\* sum += delta[j] * weights[i][j], for j up to n
RECURSIVE deltaSum(_, _, _, _)
deltaSum(delta, weights, i, n) ==
  IF n = 0 THEN 0 ELSE deltaSum(delta, weights, i, n - 1) + delta[n] * weights[i][n]

\* the loop of backward through the hidden layers, from the last to the first
RECURSIVE backwardTrunk(_, _, _, _, _)
backwardTrunk(h, net, acts, l, sharedDelta) ==
  IF l < 1 THEN h
  ELSE LET layer == net.layers[l]
           prevActivation == IF l = 1 THEN acts[l].inputActivation
                             ELSE acts[l - 1].outputActivation
           delta == [idx \in 1..Len(acts[l].outputActivation) |->
                       sharedDelta[idx] * reluDerivative(acts[l].outputActivation[idx])]
           weights == stepWeights(net, h[layer.weights], prevActivation, delta)
           biases == stepBiases(net, h[layer.biases], delta)
           nextShared == [i \in 1..Len(prevActivation) |->
                            deltaSum(delta, weights, i, Len(delta))]
       IN backwardTrunk([h EXCEPT ![layer.weights] = weights, ![layer.biases] = biases],
                        net, acts, l - 1, nextShared)

\* backward(policyDelta, valueDelta) after the forward pass that returned out;
\* the arrays are written in place
backward(h, net, out, policyDelta, valueDelta) ==
  LET policyLayer == net.layers[Len(net.layers)]
      prevHidden == out.lastHiddenActivation
      policyWeightsSnapshot == h[policyLayer.weights]
      valueWeightsSnapshot == h[net.valueHead.weights]
      heads == [h EXCEPT
        ![policyLayer.weights] = stepWeights(net, @, prevHidden, policyDelta),
        ![policyLayer.biases] = stepBiases(net, @, policyDelta),
        ![net.valueHead.weights] = stepWeights(net, @, prevHidden, <<valueDelta[1]>>),
        ![net.valueHead.biases] = stepBiases(net, @, <<valueDelta[1]>>)]
      sharedDelta == [i \in 1..Len(prevHidden) |->
                        deltaSum(policyDelta, policyWeightsSnapshot, i, Len(policyDelta))
                          + valueDelta[1] * valueWeightsSnapshot[i][1]]
  IN backwardTrunk(heads, net, out.layers, Len(net.layers) - 1, sharedDelta)

\* the loop of train over the examples.  policyGrad and dValue are reals the
\* code computes from softmax and tanh; each step brings them as whole numbers
RECURSIVE trainLoop(_, _, _, _)
trainLoop(h, net, steps, keep) ==
  IF steps = <<>> THEN h
  ELSE LET example == Head(steps).example
           out == forward(h, net, example.input, example.mask, keep)
           after == backward(h, net, out, Head(steps).policyGrad, <<Head(steps).dValue>>)
       IN trainLoop(after, net, Tail(steps), keep)

trainStaysTraining(h, net, steps, keep) ==
  LET training == [net EXCEPT !.isTraining = TRUE]
  IN [heap |-> trainLoop(h, training, steps, keep),
      net |-> [training EXCEPT !.trainingCount = @ + Len(steps)]]

\* train(examples)
train(h, net, steps, keep) ==
  LET training == [net EXCEPT !.isTraining = TRUE]
  IN [heap |-> trainLoop(h, training, steps, keep),
      net |-> [net EXCEPT !.isTraining = FALSE, !.trainingCount = @ + Len(steps)]]

\* setLearningRate(lr)
setLearningRate(h, net, lr) ==
  [heap |-> [h EXCEPT ![net.config].learningRate = lr],
   net |-> [net EXCEPT !.currentLearningRate = lr]]

\* getSnapshot(): the snapshot names the network's own arrays and config
getSnapshot(h, net) ==
  [heap |-> [h EXCEPT ![net.config].learningRate = net.currentLearningRate],
   snapshot |-> [taken |-> TRUE,
                 config |-> net.config,
                 weights |-> [l \in 1..Len(net.layers) |-> net.layers[l].weights],
                 biases |-> [l \in 1..Len(net.layers) |-> net.layers[l].biases],
                 valueHeadWeights |-> net.valueHead.weights,
                 valueHeadBiases |-> net.valueHead.biases,
                 trainingCount |-> net.trainingCount]]

\* JSON.stringify and JSON.parse of a whole number: its sign and its decimal
\* digits, and the number those digits spell
RECURSIVE digitsOf(_)
digitsOf(n) == IF n < 10 THEN <<n>> ELSE Append(digitsOf(n \div 10), n % 10)
stringifyNumber(v) ==
  IF v < 0 THEN [negative |-> TRUE, digits |-> digitsOf(-v)]
  ELSE [negative |-> FALSE, digits |-> digitsOf(v)]
RECURSIVE parseDigits(_, _)
parseDigits(digits, value) ==
  IF digits = <<>> THEN value ELSE parseDigits(Tail(digits), 10 * value + Head(digits))
parseNumber(text) ==
  IF text.negative THEN -parseDigits(text.digits, 0) ELSE parseDigits(text.digits, 0)

\* JSON.parse(JSON.stringify(array)) of number[] (depth 1) or number[][]
\* (depth 2): a new array in the heap
RECURSIVE stringify(_, _)
stringify(array, depth) ==
  [i \in 1..Len(array) |->
     IF depth = 1 THEN stringifyNumber(array[i]) ELSE stringify(array[i], depth - 1)]
RECURSIVE parse(_, _)
parse(text, depth) ==
  [i \in 1..Len(text) |->
     IF depth = 1 THEN parseNumber(text[i]) ELSE parse(text[i], depth - 1)]
jsonCopy(h, ref, depth) == alloc(h, parse(stringify(h[ref], depth), depth))

\* !snapshot.weights[i]: the entry is absent
missing(refs, i) == i > Len(refs) \/ refs[i] = 0

\* the loop of loadSnapshot over this.layers; a throw leaves what was loaded
RECURSIVE loadLayers(_, _, _, _)
loadLayers(h, net, snap, i) ==
  IF i > Len(net.layers) THEN [heap |-> h, net |-> net, threw |-> FALSE]
  ELSE IF missing(snap.weights, i) \/ missing(snap.biases, i)
  THEN [heap |-> h, net |-> net, threw |-> TRUE]
  ELSE LET expectedIn == Len(h[net.layers[i].weights])
           expectedOut == Len(h[net.layers[i].weights][1])
           gotIn == Len(h[snap.weights[i]])
           gotOut == IF gotIn > 0 THEN Len(h[snap.weights[i]][1]) ELSE -1
       IN IF expectedIn # gotIn \/ expectedOut # gotOut
          THEN [heap |-> h, net |-> net, threw |-> TRUE]
          ELSE LET weights == jsonCopy(h, snap.weights[i], 2)
                   biases == jsonCopy(weights.heap, snap.biases[i], 1)
               IN loadLayers(biases.heap,
                             [net EXCEPT !.layers[i] =
                                [weights |-> weights.ref, biases |-> biases.ref]],
                             snap, i + 1)

loadValueHeadSkipped(h, net, snap) == [heap |-> h, net |-> net]

\* the value head is loaded when the snapshot has both of its arrays
loadValueHead(h, net, snap) ==
  IF snap.valueHeadWeights # 0 /\ snap.valueHeadBiases # 0
  THEN LET weights == jsonCopy(h, snap.valueHeadWeights, 2)
           biases == jsonCopy(weights.heap, snap.valueHeadBiases, 1)
       IN [heap |-> biases.heap,
           net |-> [net EXCEPT !.valueHead =
                      [weights |-> weights.ref, biases |-> biases.ref]]]
  ELSE [heap |-> h, net |-> net]

\* loadSnapshot(snapshot)
loadSnapshot(h, net, snap) ==
  LET loaded == loadLayers(h, [net EXCEPT !.trainingCount = snap.trainingCount], snap, 1)
      heads == loadValueHead(loaded.heap, loaded.net, snap)
  IN IF loaded.threw THEN loaded
     ELSE [heap |-> heads.heap,
           net |-> [heads.net EXCEPT !.currentLearningRate =
                      heads.heap[heads.net.config].learningRate],
           threw |-> FALSE]

\* ------------------------------------------------------------------------
\* Two networks of one architecture: A is trained and saved, B is loaded
\* ------------------------------------------------------------------------
NetNames == {"A", "B"}
Seeds == {0, 1}
LearningRates == {2}
NetInputs == {<<1, -1>>, <<0, 1>>}
NetMasks == {<<>>, <<1, 1>>, <<0, 1>>}

\* training batches: each step is an example with the gradients it produces
Batches ==
  LET first == [example |-> [input |-> <<1, -1>>, target |-> <<1, 0>>, mask |-> <<1, 1>>,
                             weight |-> 1, value |-> 1],
                policyGrad |-> <<-1, 1>>, dValue |-> -1]
      second == [example |-> [input |-> <<0, 1>>, target |-> <<0, 1>>, mask |-> <<1, 1>>,
                              weight |-> 1, value |-> -1],
                 policyGrad |-> <<1, -1>>, dValue |-> 1]
  IN {<<first>>, <<first, second>>}

\* the draws of Math.random() a dropout mask may use
KeepDraws(net) ==
  LET units == 1..NetConfig.hiddenLayers[1]
  IN IF net.dropout <= 0 THEN {[i \in units |-> TRUE]} ELSE [units -> BOOLEAN]

NetInit ==
  /\ OracleInit
  /\ sym = NoSym /\ page = NoPage
  /\ \E seedA \in Seeds, seedB \in Seeds :
       \E a \in {NeuralNetwork(<<NetConfig, NetConfig>>, 1, seedA)} :
         \E b \in {NeuralNetwork(a.heap, 2, seedB)} :
           /\ heap = b.heap
           /\ networks = [n \in NetNames |-> IF n = "A" THEN a.net ELSE b.net]
  /\ snapshot = NoSnapshot
  /\ netCalls = <<>>
  /\ output = NoOutput

\* the record of a call: the method, the network and whether it threw
called(op, n, threw) == Append(netCalls, [op |-> op, net |-> n, threw |-> threw])

TrainCall(n, steps) ==
  /\ Len(netCalls) < MaxNetCalls
  /\ \E keep \in KeepDraws(networks[n]) :
       \E r \in {train(heap, networks[n], steps, keep)} :
         /\ heap' = r.heap
         /\ networks' = [networks EXCEPT ![n] = r.net]
  /\ netCalls' = called("train", n, FALSE)
  /\ UNCHANGED <<snapshot, output, oracleVars, dataset, sym, page>>

SetLearningRateCall(n, lr) ==
  /\ Len(netCalls) < MaxNetCalls
  /\ \E r \in {setLearningRate(heap, networks[n], lr)} :
       /\ heap' = r.heap
       /\ networks' = [networks EXCEPT ![n] = r.net]
  /\ netCalls' = called("setLearningRate", n, FALSE)
  /\ UNCHANGED <<snapshot, output, oracleVars, dataset, sym, page>>

GetSnapshotCall(n) ==
  /\ Len(netCalls) < MaxNetCalls
  /\ \E r \in {getSnapshot(heap, networks[n])} :
       /\ heap' = r.heap
       /\ snapshot' = r.snapshot
  /\ netCalls' = called("getSnapshot", n, FALSE)
  /\ UNCHANGED <<networks, output, oracleVars, dataset, sym, page>>

\* n.loadSnapshot(snapshot) with the object the last getSnapshot returned
LoadSnapshotCall(n) ==
  /\ Len(netCalls) < MaxNetCalls
  /\ snapshot.taken
  /\ \E r \in {loadSnapshot(heap, networks[n], snapshot)} :
       /\ heap' = r.heap
       /\ networks' = [networks EXCEPT ![n] = r.net]
       /\ netCalls' = called("loadSnapshot", n, r.threw)
  /\ UNCHANGED <<snapshot, output, oracleVars, dataset, sym, page>>

NetNext ==
  \/ \E n \in NetNames, steps \in Batches : TrainCall(n, steps)
  \/ \E n \in NetNames, lr \in LearningRates : SetLearningRateCall(n, lr)
  \/ \E n \in NetNames : GetSnapshotCall(n)
  \/ \E n \in NetNames : LoadSnapshotCall(n)

SpecNet == NetInit /\ [][NetNext]_vars

\* the calls so far are train and setLearningRate calls on A, then
\* A.getSnapshot(), then B.loadSnapshot of it: B is as constructed until then
roundTripDone ==
  /\ Len(netCalls) >= 2
  /\ netCalls[Len(netCalls)] = [op |-> "loadSnapshot", net |-> "B", threw |-> FALSE]
  /\ netCalls[Len(netCalls) - 1] = [op |-> "getSnapshot", net |-> "A", threw |-> FALSE]
  /\ \A k \in 1..(Len(netCalls) - 2) :
       netCalls[k].net = "A" /\ netCalls[k].op \in {"train", "setLearningRate"}

sameArrays(a, b) == heap[a.weights] = heap[b.weights] /\ heap[a.biases] = heap[b.biases]

\* C10: after B.loadSnapshot(A.getSnapshot()), with A reached by train and
\* setLearningRate calls and B freshly constructed from an equal config, every
\* trunk and policy-head weight and bias, the value-head weights and bias and
\* the training counter of B equal A's, and forward returns the same policy
\* and value on A and on B for every input and mask
C10_SnapshotRoundTrip ==
  roundTripDone =>
    /\ Len(networks["B"].layers) = Len(networks["A"].layers)
    /\ \A l \in 1..Len(networks["A"].layers) :
         sameArrays(networks["A"].layers[l], networks["B"].layers[l])
    /\ sameArrays(networks["A"].valueHead, networks["B"].valueHead)
    /\ networks["B"].trainingCount = networks["A"].trainingCount
    /\ \A input \in NetInputs, mask \in NetMasks, keep \in KeepDraws(networks["A"]) :
         \E a \in {forward(heap, networks["A"], input, mask, keep)} :
           \E b \in {forward(heap, networks["B"], input, mask, keep)} :
             a.policy = b.policy /\ a.value = b.value

\* a round trip of a network that was trained and had its rate changed, so
\* that its arrays are no longer what any constructor draws
C10_Witness ==
  /\ roundTripDone
  /\ \E k \in 1..Len(netCalls) : netCalls[k].op = "train"
  /\ \E k \in 1..Len(netCalls) : netCalls[k].op = "setLearningRate"
  /\ networks["B"].trainingCount > 0
  /\ heap[networks["A"].valueHead.biases] # <<0>>
  /\ heap[networks["A"].layers[1].biases] # <<0, 0>>

\* C11: once a snapshot has been returned, a train or setLearningRate call on
\* a network changes no value the snapshot holds: its config, the weights and
\* biases of its layers, its value head and its training counter
C11_SnapshotSharesNoStorage ==
  [][LET holds(h) ==
           [config |-> h[snapshot.config],
            weights |-> [l \in 1..Len(snapshot.weights) |-> h[snapshot.weights[l]]],
            biases |-> [l \in 1..Len(snapshot.biases) |-> h[snapshot.biases[l]]],
            valueHeadWeights |-> h[snapshot.valueHeadWeights],
            valueHeadBiases |-> h[snapshot.valueHeadBiases],
            trainingCount |-> snapshot.trainingCount]
     IN (/\ snapshot.taken
         /\ Len(netCalls') > Len(netCalls)
         /\ netCalls'[Len(netCalls')].op \in {"train", "setLearningRate"})
        => (snapshot' = snapshot /\ holds(heap') = holds(heap))]_vars

\* ------------------------------------------------------------------------
\* Loading snapshots the caller has changed.  A snapshot is a plain object:
\* the caller may point one of its entries at another array, or remove it,
\* before handing it to loadSnapshot
\* ------------------------------------------------------------------------
\* the arrays a caller puts into a snapshot of a network of NetConfig
SnapshotEdits ==
  << [field |-> "weights", layer |-> 2, array |-> <<<<1, 1, 1>>, <<1, 1, 1>>>>],
     [field |-> "weights", layer |-> 1, array |-> <<<<1, 1>>, <<1>>>>],
     [field |-> "biases", layer |-> 1, array |-> <<1, 1, 1>>],
     [field |-> "biases", layer |-> 2, array |-> <<>>],
     [field |-> "valueHeadWeights", layer |-> 0, array |-> <<<<1>>, <<1>>, <<1>>>>],
     [field |-> "valueHeadBiases", layer |-> 0, array |-> <<1, 1>>] >>

\* snapshot[field] = array, or snapshot[field][layer] = array; the edit with
\* no array removes the entry
EditSnapshot(edit) ==
  /\ Len(netCalls) < MaxNetCalls
  /\ snapshot.taken
  /\ \A k \in 1..Len(netCalls) : netCalls[k].op # "edit"
  /\ \E ref \in {IF Len(edit.array) = 0 THEN 0 ELSE Len(heap) + 1} :
       /\ heap' = IF ref = 0 THEN heap ELSE Append(heap, edit.array)
       /\ snapshot' =
            IF edit.field = "weights" THEN [snapshot EXCEPT !.weights[edit.layer] = ref]
            ELSE IF edit.field = "biases" THEN [snapshot EXCEPT !.biases[edit.layer] = ref]
            ELSE IF edit.field = "valueHeadWeights"
                 THEN [snapshot EXCEPT !.valueHeadWeights = ref]
            ELSE [snapshot EXCEPT !.valueHeadBiases = ref]
  /\ netCalls' = called("edit", "snapshot", FALSE)
  /\ UNCHANGED <<networks, output, oracleVars, dataset, sym, page>>

LoadNext ==
  \/ \E steps \in Batches : TrainCall("A", steps)
  \/ GetSnapshotCall("A")
  \/ \E e \in 1..Len(SnapshotEdits) : EditSnapshot(SnapshotEdits[e])
  \/ LoadSnapshotCall("B")

SpecLoad == NetInit /\ [][LoadNext]_vars

\* C12: a loadSnapshot call that throws leaves the network as it was: the
\* weights and biases of every layer, the value head and the training counter
C12_FailedLoadChangesNothing ==
  [][LET state(h, net) ==
           [weights |-> [l \in 1..Len(net.layers) |-> h[net.layers[l].weights]],
            biases |-> [l \in 1..Len(net.layers) |-> h[net.layers[l].biases]],
            valueHeadWeights |-> h[net.valueHead.weights],
            valueHeadBiases |-> h[net.valueHead.biases],
            trainingCount |-> net.trainingCount]
     IN (/\ Len(netCalls') > Len(netCalls)
         /\ netCalls'[Len(netCalls')].op = "loadSnapshot"
         /\ netCalls'[Len(netCalls')].threw)
        => \A n \in DOMAIN networks :
             state(heap', networks'[n]) = state(heap, networks[n])]_vars

\* C13: a loadSnapshot call that does not throw has loaded arrays of exactly
\* the network's dimensions: every weight matrix of a layer has inputDim rows
\* of outputDim numbers each and its bias vector has outputDim numbers, and
\* so has the value head
C13_LoadedShapesMatch ==
  LET shaped(weights, biases, inputDim, outputDim) ==
        /\ Len(weights) = inputDim
        /\ \A i \in 1..Len(weights) : Len(weights[i]) = outputDim
        /\ Len(biases) = outputDim
      sizes(net) == <<heap[net.config].inputSize>> \o heap[net.config].hiddenLayers
                      \o <<heap[net.config].outputSize>>
      matches(net) ==
        /\ \A l \in 1..Len(net.layers) :
             shaped(heap[net.layers[l].weights], heap[net.layers[l].biases],
                    sizes(net)[l], sizes(net)[l + 1])
        /\ shaped(heap[net.valueHead.weights], heap[net.valueHead.biases],
                  sizes(net)[Len(net.layers)], 1)
  IN (/\ Len(netCalls) > 0
      /\ netCalls[Len(netCalls)].op = "loadSnapshot"
      /\ ~netCalls[Len(netCalls)].threw)
     => matches(networks[netCalls[Len(netCalls)].net])

\* ------------------------------------------------------------------------
\* Constructing networks from any configuration
\* ------------------------------------------------------------------------
Sizes == {-1, 0, 1, 2}
Configs ==
  {[NetConfig EXCEPT !.inputSize = i, !.hiddenLayers = h, !.outputSize = o] :
     i \in Sizes, h \in {<<>>} \cup {<<w>> : w \in Sizes}, o \in Sizes}

\* networks.push(new NeuralNetwork(config)), config being a new object
ConstructCall(config, seed) ==
  /\ Cardinality({k \in 1..Len(netCalls) : netCalls[k].op = "construct"}) < MaxNetworks
  /\ \E r \in {NeuralNetwork(Append(heap, config), Len(heap) + 1, seed)} :
       /\ heap' = IF r.threw THEN Append(heap, config) ELSE r.heap
       /\ networks' = IF r.threw THEN networks ELSE Append(networks, r.net)
       /\ netCalls' = called("construct", Len(networks) + 1, r.threw)
  /\ UNCHANGED <<snapshot, output, oracleVars, dataset, sym, page>>

ConstructNext ==
  \/ \E config \in Configs, seed \in Seeds : ConstructCall(config, seed)
  \/ \E n \in DOMAIN networks, lr \in LearningRates : SetLearningRateCall(n, lr)

SpecConstruct == Init /\ [][ConstructNext]_vars

\* C14: no network is constructed from a configuration whose inputSize,
\* outputSize or some hidden-layer width is zero or negative: the constructor
\* throws
C14_InvalidConfigThrows ==
  \A n \in DOMAIN networks :
    /\ heap[networks[n].config].inputSize > 0
    /\ heap[networks[n].config].outputSize > 0
    /\ \A l \in DOMAIN heap[networks[n].config].hiddenLayers :
         heap[networks[n].config].hiddenLayers[l] > 0

\* ------------------------------------------------------------------------
\* forward and predict on a network that trains with dropout
\* ------------------------------------------------------------------------
predictLoopLastOnTies(policy, mask, i, best, score) ==
  LET legal == {k \in 1..Len(policy) : mask = <<>> \/ mask[k] # 0}
      top == {k \in legal : \A m \in legal : policy[k] >= policy[m]}
  IN IF legal = {} THEN best ELSE (CHOOSE k \in top : \A m \in top : k >= m) - 1

\* the loop of predict from index i on; the index returned is the code's
RECURSIVE predictLoop(_, _, _, _, _)
predictLoop(policy, mask, i, best, score) ==
  IF i > Len(policy) THEN best
  ELSE IF mask # <<>> /\ mask[i] = 0 THEN predictLoop(policy, mask, i + 1, best, score)
  ELSE IF policy[i] > score THEN predictLoop(policy, mask, i + 1, i - 1, policy[i])
  ELSE predictLoop(policy, mask, i + 1, best, score)

\* predict(input, mask)
predict(h, net, input, mask, keep) ==
  predictLoop(forward(h, net, input, mask, keep).policy, mask, 1, -1, NegInfinity)

DropConfig == [NetConfig EXCEPT !.dropout = 1]
InferMasks == NetMasks \cup {<<0, 0>>, <<1, 0>>}

InferInit ==
  /\ OracleInit
  /\ sym = NoSym /\ page = NoPage
  /\ \E seed \in Seeds :
       \E r \in {NeuralNetwork(<<DropConfig>>, 1, seed)} :
         heap = r.heap /\ networks = <<r.net>>
  /\ snapshot = NoSnapshot
  /\ netCalls = <<>>
  /\ output = NoOutput

ForwardCall(n, input, mask) ==
  /\ \E keep \in KeepDraws(networks[n]) :
       \E r \in {forward(heap, networks[n], input, mask, keep)} :
         output' = [op |-> "forward", net |-> n, input |-> input, mask |-> mask,
                    policy |-> r.policy, value |-> r.value, move |-> -1,
                    at |-> Len(netCalls)]
  /\ UNCHANGED <<heap, networks, snapshot, netCalls, oracleVars, dataset, sym, page>>

PredictCall(n, input, mask) ==
  /\ \E keep \in KeepDraws(networks[n]) :
       \E r \in {forward(heap, networks[n], input, mask, keep)} :
         output' = [op |-> "predict", net |-> n, input |-> input, mask |-> mask,
                    policy |-> r.policy, value |-> r.value,
                    move |-> predict(heap, networks[n], input, mask, keep),
                    at |-> Len(netCalls)]
  /\ UNCHANGED <<heap, networks, snapshot, netCalls, oracleVars, dataset, sym, page>>

\* the network is trained, then queried
InferNext ==
  \/ \E steps \in Batches \cup {<<>>} :
       Len(netCalls) < MaxTrainCalls /\ output.op = "none" /\ TrainCall(1, steps)
  \/ \E input \in NetInputs, mask \in InferMasks : ForwardCall(1, input, mask)
  \/ \E input \in NetInputs, mask \in InferMasks : PredictCall(1, input, mask)

SpecInfer == InferInit /\ [][InferNext]_vars

\* C15: the policy forward returns for a mask is exactly 0 at every index
\* whose mask is 0, also when no index is legal; and when some index is
\* legal the largest entry is a legal one, so that the legal entries, the only
\* ones that are not 0, sum to 1
C15_MaskedSoftmax ==
  (output.op = "forward" /\ output.mask # <<>>) =>
    /\ \A i \in 1..Len(output.policy) :
         output.mask[i] = 0 => output.policy[i] = ExpUnderflow - 1
    /\ (\E i \in 1..Len(output.mask) : output.mask[i] # 0) =>
         \E i \in 1..Len(output.policy) : output.mask[i] # 0 /\ output.policy[i] = 0

\* C16: predict returns a legal index whose probability is the highest among
\* the legal indices, the lowest such index on ties, and -1 exactly when no
\* index is legal
C16_PredictPicksBestLegal ==
  output.op = "predict" =>
    LET legal == {k \in 1..Len(output.policy) : output.mask = <<>> \/ output.mask[k] = 1}
        move == output.move + 1
    IN IF legal = {} THEN output.move = -1
       ELSE /\ move \in legal
            /\ \A m \in legal : output.policy[move] >= output.policy[m]
            /\ \A m \in legal : output.policy[m] = output.policy[move] => m >= move

\* predict has chosen between two legal indices of equal probability
C16_Witness ==
  /\ output.op = "predict"
  /\ output.mask = <<1, 1>>
  /\ output.policy[1] = output.policy[2]
  /\ output.move = 0
  /\ networks[1].trainingCount > 0

\* C17: after every train call training mode is off, so a forward or predict
\* call outside train returns what an all-ones dropout mask gives, whatever
\* Math.random() would draw: two such calls on the same weights, input and
\* mask return the same output
C17_TrainingModeOnlyInsideTrain ==
  /\ \A n \in DOMAIN networks : ~networks[n].isTraining
  /\ (output.op # "none" /\ output.at = Len(netCalls)) =>
       \A keep \in KeepDraws(networks[output.net]) :
         \E r \in {forward(heap, networks[output.net], output.input, output.mask, keep)} :
           /\ r.policy = output.policy
           /\ r.value = output.value
           /\ r.layers[1].outputActivation =
                [i \in 1..Len(r.layers[1].outputActivation) |->
                   relu(weightedSum(heap[networks[output.net].layers[1].biases][i],
                                    output.input,
                                    heap[networks[output.net].layers[1].weights], i,
                                    Len(output.input)))]
           /\ output.op = "predict" =>
                output.move = predict(heap, networks[output.net], output.input,
                                      output.mask, keep)

\* a forward call after two train calls, one of them with no example, on a
\* network with dropout that has a hidden unit active for the input
C17_Witness ==
  /\ output.op = "forward"
  /\ Len(netCalls) = 2
  /\ networks[1].trainingCount = 1
  /\ networks[1].dropout > 0
  /\ \E i \in 1..2 :
       weightedSum(heap[networks[1].layers[1].biases][i], output.input,
                   heap[networks[1].layers[1].weights], i, Len(output.input)) > 0

\* C18: in a backward step the change of every weight of the trunk, the policy
\* head and the value head, beyond its decay, is at most learningRate *
\* gradientClip in absolute value, and so is the change of every bias
C18_GradientStepBounded ==
  [][LET n == netCalls'[Len(netCalls')].net
         net == networks[n]
         bound == net.currentLearningRate * net.gradientClip
         within(x) == x <= bound /\ -x <= bound
         decayed(w) == w * (1 - net.currentLearningRate * net.weightDecay)
         bounded(layer) ==
           /\ \A i \in 1..Len(heap[layer.weights]) :
                \A j \in 1..Len(heap[layer.weights][i]) :
                  within(heap'[layer.weights][i][j] - decayed(heap[layer.weights][i][j]))
           /\ \A j \in 1..Len(heap[layer.biases]) :
                within(heap'[layer.biases][j] - heap[layer.biases][j])
     IN (/\ Len(netCalls') > Len(netCalls)
         /\ netCalls'[Len(netCalls')].op = "train"
         /\ networks'[n].trainingCount = net.trainingCount + 1)
        => /\ \A l \in 1..Len(net.layers) : bounded(net.layers[l])
           /\ bounded(net.valueHead)]_vars

\* one backward step has moved a hidden bias, which starts at 0, by the whole
\* of learningRate * gradientClip
C18_Witness ==
  /\ Len(netCalls) = 1
  /\ networks[1].trainingCount = 1
  /\ \E j \in 1..2 :
       \/ heap[networks[1].layers[1].biases][j]
            = networks[1].currentLearningRate * networks[1].gradientClip
       \/ -heap[networks[1].layers[1].biases][j]
            = networks[1].currentLearningRate * networks[1].gradientClip

\* C19: on every board reachable by legal alternating play that stops at the
\* first win, at most one mark owns one of the 8 lines (3 rows, 3 columns, 2
\* diagonals), and computeWinner returns that mark, or none when no line is
\* owned: the order in which the lines are scanned does not matter
C19_ComputeWinner ==
  last.called =>
    LET lines == {{3 * r, 3 * r + 1, 3 * r + 2} : r \in 0..2}
                   \cup {{c, c + 3, c + 6} : c \in 0..2}
                   \cup {{0, 4, 8}, {2, 4, 6}}
        owners == {m \in Marks : \E line \in lines : \A i \in line : last.board[i] = m}
    IN /\ Cardinality(lines) = 8
       /\ Cardinality(owners) <= 1
       /\ \A m \in Marks : computeWinner(last.board) = m <=> m \in owners
       /\ computeWinner(last.board) = Null <=> owners = {}

\* the oracle was asked about a board O has won on a diagonal, where X holds
\* two cells of a row
C19_Witness ==
  /\ last.called
  /\ computeWinner(last.board) = "O"
  /\ last.board[2] = "O" /\ last.board[4] = "O" /\ last.board[6] = "O"
  /\ last.board[0] = "X" /\ last.board[1] = "X"

\* C20: for a terminal state minimaxPolicy returns a result too: an all-zero
\* policy, the mask of the empty cells and value 0; so it does for a state
\* with no legal move and no winner
C20_TerminalStates ==
  (last.called /\ (computeWinner(last.board) # Null \/ ~includesEmpty(last.board))) =>
    /\ \A i \in Cells : last.policy[i] = 0
    /\ \A i \in Cells : last.mask[i] = (IF last.board[i] = "_" THEN 1 ELSE 0)
    /\ last.value = 0

\* the oracle was asked about a full board nobody has won
C20_Witness ==
  /\ last.called
  /\ computeWinner(last.board) = Null
  /\ \A i \in Cells : last.board[i] # "_"
  /\ last.value = 0
  /\ \A i \in Cells : last.policy[i] = 0

\* ------------------------------------------------------------------------
\* A network with two hidden layers, trained one example at a time
\* ------------------------------------------------------------------------
DeepConfig == [NetConfig EXCEPT !.hiddenLayers = <<2, 2>>]
DeepSeeds == 0..2
DeepSteps == {batch[k] : k \in 1..2, batch \in {b \in Batches : Len(b) = 2}}

DeepInit ==
  /\ OracleInit
  /\ sym = NoSym /\ page = NoPage
  /\ \E seed \in DeepSeeds :
       \E r \in {NeuralNetwork(<<DeepConfig>>, 1, seed)} :
         heap = r.heap /\ networks = <<r.net>>
  /\ snapshot = NoSnapshot
  /\ netCalls = <<>>
  /\ output = NoOutput

\* n.train([example]), the example and its gradients kept for inspection
TrainStepCall(n, step) ==
  /\ Len(netCalls) < MaxNetCalls
  /\ \E keep \in KeepDraws(networks[n]) :
       \E r \in {train(heap, networks[n], <<step>>, keep)} :
         /\ heap' = r.heap
         /\ networks' = [networks EXCEPT ![n] = r.net]
         /\ output' = [op |-> "train", net |-> n, step |-> step, keep |-> keep,
                       at |-> Len(netCalls) + 1]
  /\ netCalls' = called("train", n, FALSE)
  /\ UNCHANGED <<snapshot, oracleVars, dataset, sym, page>>

DeepNext ==
  \/ \E step \in DeepSteps : TrainStepCall(1, step)
  \/ \E lr \in LearningRates : SetLearningRateCall(1, lr)

SpecDeep == DeepInit /\ [][DeepNext]_vars

\* C21: in a backward step the last hidden layer is updated with the gradient
\* that comes through the pre-update weights of the policy head and of the
\* value head, and the first hidden layer is updated with the gradient that
\* comes through the pre-update weights of the last hidden layer
C21_GradientsUsePreUpdateWeights ==
  [][(/\ Len(netCalls') > Len(netCalls)
      /\ output'.op = "train"
      /\ output'.at = Len(netCalls')) =>
       LET net == [networks[output'.net] EXCEPT !.isTraining = TRUE]
           step == output'.step
           out == forward(heap, net, step.example.input, step.example.mask, output'.keep)
           first == net.layers[1]
           second == net.layers[2]
           policyLayer == net.layers[3]
           sharedDelta == [i \in 1..Len(out.lastHiddenActivation) |->
                             deltaSum(step.policyGrad, heap[policyLayer.weights], i,
                                      Len(step.policyGrad))
                               + step.dValue * heap[net.valueHead.weights][i][1]]
           secondDelta == [idx \in 1..Len(sharedDelta) |->
                             sharedDelta[idx]
                               * reluDerivative(out.layers[2].outputActivation[idx])]
           passedOn == [i \in 1..Len(out.layers[2].inputActivation) |->
                          deltaSum(secondDelta, heap[second.weights], i, Len(secondDelta))]
           firstDelta == [idx \in 1..Len(passedOn) |->
                            passedOn[idx]
                              * reluDerivative(out.layers[1].outputActivation[idx])]
       IN /\ heap'[second.weights]
               = stepWeights(net, heap[second.weights], out.layers[2].inputActivation,
                             secondDelta)
          /\ heap'[second.biases] = stepBiases(net, heap[second.biases], secondDelta)
          /\ heap'[first.weights]
               = stepWeights(net, heap[first.weights], step.example.input, firstDelta)
          /\ heap'[first.biases] = stepBiases(net, heap[first.biases], firstDelta)]_vars

\* ------------------------------------------------------------------------
\* The training page (pages/Train.tsx).  state is the React state after every
\* set call made so far, view the state as last rendered: a handler closes
\* over the values of the render that created it.  A click is followed by a
\* render before the next event; after a timer or a resumed loop the render
\* is a step of its own.  Game records, statistics, losses and the picture of
\* the forward pass are left out, and so are the oracle's caches
\* ------------------------------------------------------------------------
MaxPicks == 2
MaxLoops == 2
MaxResets == 1
\* games of one training run; the slider offers 5 to 50
MaxGames == 1
\* batches of one game; batchesPerGame is 14
MaxBatches == 2
numGames == 10
awaitEvery == 5

\* what sampleBatch may return
PageBatches == {b \in Batches : Len(b) = 1}
\* the cells the player clicks
PickCells == {0, 4}
\* Math.random() in sampleWithTemp: which of the empty cells is drawn
Draws == {"lowest", "highest"}

TrainState ==
  [board |-> EmptyBoard, turn |-> "X", status |-> "ACTIVE", animating |-> FALSE,
   mode |-> "train", testOpponent |-> "you"]

TrainPage ==
  [name |-> "train", state |-> TrainState, view |-> TrainState,
   sessionRef |-> 0, aiMoveTimeout |-> 0, nextTimer |-> 1, timers |-> {},
   loops |-> {}, started |-> 0, picks |-> 0, resets |-> 0, afterReset |-> FALSE]

TrainPageInit ==
  /\ OracleInit
  /\ sym = NoSym
  /\ \E r \in {NeuralNetwork(<<NetConfig>>, 1, 0)} :
       heap = r.heap /\ networks = <<r.net>>
  /\ snapshot = NoSnapshot
  /\ netCalls = <<>>
  /\ output = NoOutput
  /\ page = TrainPage

setAnimatingIgnored(state, value) == state
setAnimating(state, value) == [state EXCEPT !.animating = value]

isPlayerTurn(state) == state.status = "ACTIVE" /\ state.turn = "X"

\* the render React makes before the next event
render(p) == [p EXCEPT !.view = p.state]

\* scheduleLearningRate then network.train(sampleBatch()); the games trained
\* stay below lrDropAt, so the target is the base rate
trainBatch(h, net, batch) ==
  LET rated == setLearningRate(h, net, NetConfig.learningRate)
  IN train(rated.heap, rated.net, batch, CHOOSE keep \in KeepDraws(net) : TRUE)

\* runTeacherTraining up to its first await
runTeacherTraining(p, h, net, gamesToTrain, batch) ==
  IF gamesToTrain <= 0 THEN [page |-> p, heap |-> h, net |-> net]
  ELSE LET r == trainBatch(h, net, batch)
       IN [page |-> [p EXCEPT !.state = setAnimating(@, TRUE),
                              !.started = @ + 1,
                              !.loops = @ \cup {[id |-> p.started + 1, kind |-> "train",
                                                 g |-> 0, b |-> 1,
                                                 games |-> gamesToTrain]}],
           heap |-> r.heap, net |-> r.net]

\* clearAiTimeout
clearAiTimeout(p) ==
  [p EXCEPT !.timers = {t \in @ : t.id # p.aiMoveTimeout}, !.aiMoveTimeout = 0]

\* window.setTimeout
setTimeout(p, kind, from, currentLayer) ==
  [p EXCEPT !.timers = @ \cup {[id |-> p.nextTimer, kind |-> kind,
                                sessionId |-> from.sessionId, b1 |-> from.b1,
                                animate |-> from.animate, mode |-> from.mode,
                                currentLayer |-> currentLayer]},
            !.nextTimer = @ + 1]

totalLayers(h, net) == 2 + Len(h[net.config].hiddenLayers)

\* reset
reset(p) ==
  LET cleared == clearAiTimeout([p EXCEPT !.sessionRef = @ + 1])
  IN [cleared EXCEPT !.state = setAnimating(
                        [@ EXCEPT !.board = EmptyBoard, !.turn = "X",
                                  !.status = "ACTIVE"], FALSE),
                     !.resets = @ + 1, !.afterReset = TRUE]

\* executeMove(output) of the move timer t; draw is the cell sampled
executeMove(p, h, net, t, draw, batch) ==
  LET legal == {i \in Cells : t.b1[i] = "_"}
      bestMove == IF draw = "lowest" THEN CHOOSE i \in legal : \A j \in legal : i <= j
                  ELSE CHOOSE i \in legal : \A j \in legal : i >= j
      b2 == applyMove(t.b1, bestMove, "O")
      finished(q) == IF t.mode = "train" THEN runTeacherTraining(q, h, net, 1, batch)
                     ELSE [page |-> q, heap |-> h, net |-> net]
  IN IF legal = {}
     THEN finished([p EXCEPT !.state = [@ EXCEPT !.turn = "O", !.status = "FINISHED"],
                             !.aiMoveTimeout = 0])
     ELSE IF computeWinner(b2) # Null \/ ~includesEmpty(b2)
     THEN finished([p EXCEPT !.state = [@ EXCEPT !.board = b2, !.turn = "O",
                                                 !.status = "FINISHED"],
                             !.aiMoveTimeout = 0])
     ELSE [page |-> [p EXCEPT !.state = [@ EXCEPT !.board = b2, !.turn = "X"],
                              !.aiMoveTimeout = 0],
           heap |-> h, net |-> net]

\* what a step of the page leaves alone
pageFrame == UNCHANGED <<netCalls, output, oracleVars, dataset, sym>>

becomes(r) ==
  /\ page' = r.page
  /\ heap' = r.heap
  /\ networks' = [networks EXCEPT ![1] = r.net]

\* the mode tabs
SetMode(mode) ==
  /\ page.view.mode # mode
  /\ page' = render([page EXCEPT !.state.mode = mode])
  /\ UNCHANGED <<heap, networks, snapshot>>
  /\ pageFrame

\* the opponent buttons, shown in test mode
SetTestOpponent(opponent) ==
  /\ page.view.mode = "test"
  /\ page.view.testOpponent # opponent
  /\ page' = render([page EXCEPT !.state.testOpponent = opponent])
  /\ UNCHANGED <<heap, networks, snapshot>>
  /\ pageFrame

\* the train button, shown in train mode: simulateMinimaxRollouts
SimulateMinimaxRollouts(batch) ==
  /\ page.started < MaxLoops
  /\ page.view.mode = "train"
  /\ ~page.view.animating
  /\ \E r \in {runTeacherTraining(page, heap, networks[1], MaxGames, batch)} :
       becomes([r EXCEPT !.page = render(@)])
  /\ UNCHANGED snapshot
  /\ pageFrame

\* the run button, shown in test mode against random, easy or minimax:
\* testAIvsOpponent up to its first await, after game 0
TestAIvsOpponent ==
  /\ page.started < MaxLoops
  /\ page.view.mode = "test"
  /\ page.view.testOpponent # "you"
  /\ ~page.view.animating
  /\ page' = render([page EXCEPT !.state = setAnimating(@, TRUE),
                                 !.started = @ + 1,
                                 !.loops = @ \cup {[id |-> page.started + 1,
                                                    kind |-> "test", g |-> 0, b |-> 0,
                                                    games |-> numGames]}])
  /\ UNCHANGED <<heap, networks, snapshot>>
  /\ pageFrame

\* a cell of the board, shown in test mode against you: handlePlayerMove
HandlePlayerMove(index, batch) ==
  /\ page.picks < MaxPicks
  /\ page.view.mode = "test" /\ page.view.testOpponent = "you"
  /\ page.view.status # "FINISHED"
  /\ isPlayerTurn(page.view)
  /\ isMoveValid(page.view.board, index)
  /\ ~page.view.animating
  /\ LET b1 == applyMove(page.view.board, index, "X")
         p == [page EXCEPT !.picks = @ + 1, !.afterReset = FALSE]
         closure == [sessionId |-> page.sessionRef, b1 |-> b1,
                     animate |-> page.view.mode = "test"
                                   /\ page.view.testOpponent = "you",
                     mode |-> page.view.mode]
     IN IF computeWinner(b1) # Null \/ ~includesEmpty(b1)
        THEN LET over == [p EXCEPT !.state = [@ EXCEPT !.board = b1, !.turn = "X",
                                                       !.status = "FINISHED"]]
                 r == IF page.view.mode = "train"
                      THEN runTeacherTraining(over, heap, networks[1], 1, batch)
                      ELSE [page |-> over, heap |-> heap, net |-> networks[1]]
             IN becomes([r EXCEPT !.page = render(@)])
        ELSE /\ page' = render([setTimeout([p EXCEPT !.state = [@ EXCEPT !.board = b1,
                                                                         !.turn = "O"]],
                                           "move", closure, 0)
                                  EXCEPT !.aiMoveTimeout = p.nextTimer])
             /\ UNCHANGED <<heap, networks>>
  /\ UNCHANGED snapshot
  /\ pageFrame

\* the reset button, shown with the board
Reset ==
  /\ page.resets < MaxResets
  /\ page.view.mode = "test" /\ page.view.testOpponent = "you"
  /\ ~page.view.animating
  /\ page' = render(reset(page))
  /\ UNCHANGED <<heap, networks, snapshot>>
  /\ pageFrame

\* the 100 or 300 ms timer of handlePlayerMove fires
MoveTimer(draw, batch) ==
  \E t \in page.timers :
    /\ t \in page.timers /\ t.kind = "move"
    /\ LET p == [page EXCEPT !.timers = @ \ {t}]
       IN IF page.sessionRef # t.sessionId
          THEN page' = p /\ UNCHANGED <<heap, networks>>
          ELSE IF t.animate
          THEN page' = setTimeout(p, "layer", t, 1) /\ UNCHANGED <<heap, networks>>
          ELSE becomes(executeMove(p, heap, networks[1], t, draw, batch))
    /\ UNCHANGED snapshot
    /\ pageFrame

\* a 400 ms timer of animateLayer fires
LayerTimer ==
  \E t \in page.timers :
    /\ t \in page.timers /\ t.kind = "layer"
    /\ LET p == [page EXCEPT !.timers = @ \ {t}]
       IN page' = IF page.sessionRef # t.sessionId THEN p
                  ELSE IF t.currentLayer < totalLayers(heap, networks[1])
                  THEN setTimeout(p, "layer", t, t.currentLayer + 1)
                  ELSE setTimeout(p, "pause", t, t.currentLayer)
    /\ UNCHANGED <<heap, networks, snapshot>>
    /\ pageFrame

\* the 300 ms timer at the end of the animation fires: onComplete(policy)
PauseTimer(draw, batch) ==
  \E t \in page.timers :
    /\ t \in page.timers /\ t.kind = "pause"
    /\ becomes(executeMove([page EXCEPT !.timers = @ \ {t}], heap, networks[1], t,
                           draw, batch))
    /\ UNCHANGED snapshot
    /\ pageFrame

\* runTeacherTraining resumes after an await; threw: localStorage.setItem
\* of the trained snapshot throws
TrainingResumes(batch, threw) ==
  \E loop \in page.loops :
    /\ loop \in page.loops /\ loop.kind = "train"
    /\ LET rest == page.loops \ {loop}
           more == loop.b < MaxBatches \/ loop.g + 1 < loop.games
           next == IF loop.b < MaxBatches THEN [loop EXCEPT !.b = @ + 1]
                   ELSE [loop EXCEPT !.g = @ + 1, !.b = 1]
       IN IF more
          THEN /\ ~threw
               /\ \E r \in {trainBatch(heap, networks[1], batch)} :
                    /\ heap' = r.heap
                    /\ networks' = [networks EXCEPT ![1] = r.net]
               /\ page' = [page EXCEPT !.loops = rest \cup {next}]
               /\ UNCHANGED snapshot
          ELSE /\ \E r \in {getSnapshot(heap, networks[1])} :
                    heap' = r.heap /\ snapshot' = r.snapshot
               /\ page' = [page EXCEPT !.loops = rest,
                                       !.state = setAnimating(@, FALSE)]
               /\ UNCHANGED networks
    /\ pageFrame

\* testAIvsOpponent resumes after an await and plays on to the next await or
\* to the end; threw: localStorage.setItem of the statistics throws
TestResumes(threw) ==
  \E loop \in page.loops :
    /\ loop \in page.loops /\ loop.kind = "test"
    /\ LET rest == page.loops \ {loop}
           awaits == {g \in (loop.g + 1)..(loop.games - 1) : g % awaitEvery = 0}
       IN IF awaits # {}
          THEN /\ ~threw
               /\ page' = [page EXCEPT !.loops =
                             rest \cup {[loop EXCEPT !.g =
                                           CHOOSE g \in awaits : \A k \in awaits : g <= k]}]
          ELSE page' = [page EXCEPT !.loops = rest, !.state = setAnimating(@, FALSE)]
    /\ UNCHANGED <<heap, networks, snapshot>>
    /\ pageFrame

\* React renders the state set outside a click
Render ==
  /\ page.view # page.state
  /\ page' = render(page)
  /\ UNCHANGED <<heap, networks, snapshot>>
  /\ pageFrame

TrainPageNext ==
  \/ \E mode \in {"train", "test"} : SetMode(mode)
  \/ \E opponent \in {"you", "minimax", "random", "easy"} : SetTestOpponent(opponent)
  \/ \E batch \in PageBatches : SimulateMinimaxRollouts(batch)
  \/ TestAIvsOpponent
  \/ \E index \in PickCells, batch \in PageBatches : HandlePlayerMove(index, batch)
  \/ Reset
  \/ \E draw \in Draws, batch \in PageBatches : MoveTimer(draw, batch)
  \/ LayerTimer
  \/ \E draw \in Draws, batch \in PageBatches : PauseTimer(draw, batch)
  \/ \E batch \in PageBatches, threw \in BOOLEAN : TrainingResumes(batch, threw)
  \/ \E threw \in BOOLEAN : TestResumes(threw)
  \/ Render

SpecTrainPage == TrainPageInit /\ [][TrainPageNext]_vars

\* C22: at most one of the loops of runTeacherTraining and testAIvsOpponent
\* is in progress, animating is true as long as one is, its awaits included,
\* and animating is false when none is, also after a loop that ended with an
\* exception
C22_AnimatingSerializesLoops ==
  /\ Cardinality(page.loops) <= 1
  /\ page.state.animating <=> page.loops # {}

\* a second run has ended, the first having ended too
C22_Witness ==
  /\ page.started = 2
  /\ page.loops = {}
  /\ ~page.state.animating
  /\ networks[1].trainingCount > 0

\* C23: from reset until the player's next move the board is empty, X is to
\* move and the status is ACTIVE: no move of the network scheduled before the
\* reset is applied
C23_ResetInvalidatesPendingMoves ==
  page.afterReset =>
    /\ page.state.board = EmptyBoard
    /\ page.state.turn = "X"
    /\ page.state.status = "ACTIVE"

\* C25: while the mode is test, no weight, bias or training counter of the
\* network changes
C25_NoLearningInTestMode ==
  [][(page.state.mode = "test" /\ page'.state.mode = "test") =>
       /\ networks'[1].trainingCount = networks[1].trainingCount
       /\ \A l \in 1..Len(networks[1].layers) :
            /\ heap'[networks[1].layers[l].weights] = heap[networks[1].layers[l].weights]
            /\ heap'[networks[1].layers[l].biases] = heap[networks[1].layers[l].biases]
       /\ heap'[networks[1].valueHead.weights] = heap[networks[1].valueHead.weights]
       /\ heap'[networks[1].valueHead.biases] = heap[networks[1].valueHead.biases]]_vars

\* C24: after a loadSnapshot that did not throw, the learning rate of the
\* loading network is the rate recorded in the snapshot's config, the one
\* getSnapshot persisted
C24_LoadedLearningRate ==
  (/\ Len(netCalls) > 0
   /\ netCalls[Len(netCalls)].op = "loadSnapshot"
   /\ ~netCalls[Len(netCalls)].threw) =>
    networks[netCalls[Len(netCalls)].net].currentLearningRate
      = heap[snapshot.config].learningRate

\* C26: the policy and the value a state gets when it is first asked equal
\* the policy and the value it gets as the first query on empty caches,
\* whatever other states were asked before
C26_AnswersIgnoreHistory ==
  (last.called /\ last.repeat = "first") =>
    \E fresh \in {minimaxPolicy(last.board, last.turn, EmptyMap, EmptyMap)} :
      /\ last.policy = fresh.policy.elems
      /\ last.value = fresh.value

\* ------------------------------------------------------------------------
\* A game from the empty board in which one side or both ask the oracle, as
\* the rollouts of simulateMinimaxRollouts and the minimax opponent of
\* testAIvsOpponent do; the oracle may have been asked something before
\* ------------------------------------------------------------------------
RolloutPriors ==
  { <<Board(<<"X","_","X", "_","O","_", "_","_","_">>), "O">>,
    <<Board(<<"X","_","X", "_","O","_", "X","_","O">>), "O">> }

RolloutInit ==
  /\ OracleInit
  /\ sym = NoSym
  /\ NoNetworks
  /\ page \in {[name |-> "rollout", follows |-> f, b |-> EmptyBoard, t |-> "X",
                over |-> FALSE, moves |-> 0] : f \in {{"X"}, {"O"}, {"X", "O"}}}

optimalMovesAnyLegal(policy, mask) == {i \in Cells : mask[i] = 1}

\* chooseMove: the moves whose probability is the largest among the legal ones
optimalMoves(policy, mask) ==
  {i \in Cells : mask[i] = 1 /\ \A j \in Cells : mask[j] = 1 => policy[j] <= policy[i]}

\* b = b.substring(0, move) + t + b.substring(move + 1), then the test for
\* the end of the game
played(game, move) ==
  LET b == applyMove(game.b, move, game.t)
      ended == computeWinner(b) # Null \/ ~includesEmpty(b)
  IN [game EXCEPT !.b = b, !.moves = @ + 1, !.over = ended,
                  !.t = IF ended THEN @ ELSE nextSymbol(@)]

\* the oracle is asked about another state before the game starts
PriorQuery(q) ==
  /\ page.moves = 0
  /\ calls < MaxPriorCalls
  /\ MinimaxPolicyCall(q[1], q[2])

\* a side that follows the oracle asks it and plays one of the optimal moves
FollowerMove ==
  /\ ~page.over
  /\ page.t \in page.follows
  /\ \E r \in {minimaxPolicy(page.b, page.t, negamaxCache, policyCache)},
        key \in {keyOf(page.b, page.t)} :
        /\ IF optimalMoves(r.policy.elems, r.mask.elems) = {}
           THEN page' = [page EXCEPT !.over = TRUE]
           ELSE \E move \in optimalMoves(r.policy.elems, r.mask.elems) :
                  page' = played(page, move)
        /\ negamaxCache' = r.negamaxCache
        /\ policyCache' = r.policyCache
        /\ last' = [called |-> TRUE, board |-> page.b, turn |-> page.t,
                    policy |-> r.policy.elems, mask |-> r.mask.elems, value |-> r.value,
                    repeat |-> IF key \notin DOMAIN answers THEN "first" ELSE "again"]
        /\ held' = [policy |-> r.policy, mask |-> r.mask]
        /\ answers' =
             IF key \in DOMAIN answers THEN answers
             ELSE answers @@ (key :> [policy |-> r.policy.elems, mask |-> r.mask.elems,
                                      value |-> r.value, mutated |-> FALSE])
  /\ calls' = calls + 1
  /\ UNCHANGED <<mutations, dataset, sym, netVars>>

\* the other side plays any legal move
OpponentMove(move) ==
  /\ ~page.over
  /\ page.t \notin page.follows
  /\ isMoveValid(page.b, move)
  /\ page' = played(page, move)
  /\ UNCHANGED <<oracleVars, dataset, sym, netVars>>

RolloutNext ==
  \/ \E q \in RolloutPriors : PriorQuery(q)
  \/ FollowerMove
  \/ \E move \in Cells : OpponentMove(move)

SpecRollout == RolloutInit /\ [][RolloutNext]_vars

\* C27: in a game from the empty board a side that plays only moves the
\* oracle gives its largest probability does not lose, whatever the other
\* side plays and whatever the oracle was asked before; when both sides do
\* so the game ends, within 9 moves, in a draw
C27_FollowerNeverLoses ==
  /\ page.moves <= 9
  /\ page.over =>
       /\ \A side \in page.follows : computeWinner(page.b) # nextSymbol(side)
       /\ page.follows = Marks => computeWinner(page.b) = Null /\ ~includesEmpty(page.b)

\* a rollout has ended in a draw, the oracle having been asked about another
\* state before it
C27_Witness ==
  /\ page.over
  /\ page.follows = Marks
  /\ page.moves = 9
  /\ calls = 10
  /\ computeWinner(page.b) = Null

\* C28: the dataset built with augmentation has one entry for each state the
\* dataset built without it has, and every entry carries the policy and the
\* value minimaxPolicy returned for the entry's own board and turn
C28_AugmentationKeepsLabels ==
  (dataset.generated /\ dataset.augmentSymmetries) =>
    /\ outKeys = NonTerminalKeys
    /\ Len(dataset.out) = Cardinality(NonTerminalKeys)
    /\ \A j \in 1..Len(dataset.out) :
         \E key \in {keyOf(dataset.out[j].board, dataset.out[j].turn)} :
           /\ has(policyCache, key)
           /\ dataset.out[j].policy = policyCache[key].policy.elems
           /\ dataset.out[j].value = policyCache[key].value

\* ------------------------------------------------------------------------
\* aiMove and its minimax (utils/ai).  A null index is written -1
\* ------------------------------------------------------------------------
winScoreSwapped(winner, ai) == IF winner = ai THEN -10 ELSE 10
\* winner === ai ? 10 : -10
winScore(winner, ai) == IF winner = ai THEN 10 ELSE -10

RECURSIVE minimax(_, _, _), minimaxLoop(_, _, _, _, _, _),
          minimaxOpponent(_, _, _), minimaxOpponentLoop(_, _, _, _, _, _)
minimax(board, player, ai) ==
  IF computeWinner(board) # Null
  THEN [score |-> winScore(computeWinner(board), ai), index |-> -1]
  ELSE IF ~includesEmpty(board) THEN [score |-> 0, index |-> -1]
  ELSE minimaxLoop(board, player, ai, 0, NegInfinity, -1)

minimaxLoop(board, player, ai, i, bestScore, bestIndex) ==
  IF i >= 9 THEN [score |-> bestScore, index |-> bestIndex]
  ELSE IF ~isMoveValid(board, i)
  THEN minimaxLoop(board, player, ai, i + 1, bestScore, bestIndex)
  ELSE \* the result of the recursive call, bound once
       LET score == minimaxOpponent(applyMove(board, i, player), nextSymbol(player),
                                    ai).score
       IN IF score > bestScore
          THEN minimaxLoop(board, player, ai, i + 1, score, i)
          ELSE minimaxLoop(board, player, ai, i + 1, bestScore, bestIndex)

minimaxOpponent(board, player, ai) ==
  IF computeWinner(board) # Null
  THEN [score |-> winScore(computeWinner(board), ai), index |-> -1]
  ELSE IF ~includesEmpty(board) THEN [score |-> 0, index |-> -1]
  ELSE minimaxOpponentLoop(board, player, ai, 0, -NegInfinity, -1)

minimaxOpponentLoop(board, player, ai, i, bestScore, bestIndex) ==
  IF i >= 9 THEN [score |-> bestScore, index |-> bestIndex]
  ELSE IF ~isMoveValid(board, i)
  THEN minimaxOpponentLoop(board, player, ai, i + 1, bestScore, bestIndex)
  ELSE LET score == minimax(applyMove(board, i, player), nextSymbol(player), ai).score
       IN IF score < bestScore
          THEN minimaxOpponentLoop(board, player, ai, i + 1, score, i)
          ELSE minimaxOpponentLoop(board, player, ai, i + 1, bestScore, bestIndex)

\* draw: which of the options Math.random() selects
aiMove(board, aiSymbol, difficulty, draw) ==
  IF difficulty = "EASY"
  THEN LET options == {i \in Cells : board[i] = "_"}
       IN IF options = {} THEN -1
          ELSE IF draw = "lowest" THEN CHOOSE i \in options : \A j \in options : i <= j
          ELSE CHOOSE i \in options : \A j \in options : i >= j
  ELSE minimax(board, aiSymbol, aiSymbol).index

\* ------------------------------------------------------------------------
\* The single-player page (pages/Single.tsx); state and view as on the
\* training page.  The clock is left out
\* ------------------------------------------------------------------------
SingleState ==
  [difficulty |-> "EASY", board |-> EmptyBoard, turn |-> "X", status |-> "ACTIVE",
   moves |-> 0]

SinglePage ==
  [name |-> "single", state |-> SingleState, view |-> SingleState,
   nextTimer |-> 1, timers |-> {}, picks |-> 0, resets |-> 0, afterReset |-> FALSE]

SingleInit == OracleInit /\ sym = NoSym /\ NoNetworks /\ page = SinglePage

isMyTurn(state) == state.status = "ACTIVE" /\ state.turn = "X"

\* reset of the single-player page
resetGame(p) ==
  [p EXCEPT !.state = [@ EXCEPT !.board = EmptyBoard, !.turn = "X",
                                !.status = "ACTIVE", !.moves = 0],
            !.resets = @ + 1, !.afterReset = TRUE]

singleFrame == UNCHANGED <<oracleVars, dataset, sym, netVars>>

\* the Easy and Hard buttons: setDifficulty, then reset
SetDifficulty(difficulty) ==
  /\ page.resets < MaxResets
  /\ page' = render(resetGame([page EXCEPT !.state.difficulty = difficulty]))
  /\ singleFrame

\* the Reset button
ResetGame ==
  /\ page.resets < MaxResets
  /\ page' = render(resetGame(page))
  /\ singleFrame

\* a cell of the board: handleHumanMove
HandleHumanMove(index) ==
  /\ page.view.status # "FINISHED"
  /\ isMyTurn(page.view)
  /\ isMoveValid(page.view.board, index)
  /\ LET b1 == applyMove(page.view.board, index, "X")
         moved == [page EXCEPT !.state.board = b1, !.state.moves = @ + 1,
                               !.picks = @ + 1, !.afterReset = FALSE]
     IN page' = render(
          IF computeWinner(b1) # Null \/ ~includesEmpty(b1)
          THEN [moved EXCEPT !.state.turn = "X", !.state.status = "FINISHED"]
          ELSE [moved EXCEPT !.state.turn = "O",
                             !.timers = @ \cup {[id |-> page.nextTimer, b1 |-> b1,
                                                 difficulty |-> page.view.difficulty]},
                             !.nextTimer = @ + 1])
  /\ singleFrame

\* the 500 ms timer of handleHumanMove fires
AiReply(draw) ==
  \E t \in page.timers :
    /\ t.difficulty = "EASY" \/ draw = "lowest"
    /\ \E aiIndex \in {aiMove(t.b1, "O", t.difficulty, draw)} :
         LET b2 == IF aiIndex # -1 THEN applyMove(t.b1, aiIndex, "O") ELSE t.b1
             p == [page EXCEPT !.timers = @ \ {t}, !.state.board = b2,
                               !.state.moves = @ + 1]
         IN page' = IF computeWinner(b2) # Null \/ ~includesEmpty(b2)
                    THEN [p EXCEPT !.state.status = "FINISHED"]
                    ELSE [p EXCEPT !.state.turn = "X"]
    /\ singleFrame

PickedHumanMove(index) == page.picks < MaxPicks /\ HandleHumanMove(index)

\* any play of the page
SingleNext ==
  \/ \E difficulty \in {"EASY", "HARD"} : SetDifficulty(difficulty)
  \/ ResetGame
  \/ \E index \in PickCells : PickedHumanMove(index)
  \/ \E draw \in Draws : AiReply(draw)
  \/ Render

SpecSingle == SingleInit /\ [][SingleNext]_vars

\* games in HARD mode: the difficulty is chosen before the first move and
\* the game is played to its end
ChooseHard == page.state.moves = 0 /\ page.timers = {} /\ SetDifficulty("HARD")

HardHumanMove(index) == page.view.difficulty = "HARD" /\ HandleHumanMove(index)

SingleHardNext ==
  \/ ChooseHard
  \/ \E index \in Cells : HardHumanMove(index)
  \/ \E draw \in Draws : AiReply(draw)
  \/ Render

SpecSingleHard == SingleInit /\ [][SingleHardNext]_vars

C30_ResetDropsPendingReply ==
  page.afterReset =>
    /\ page.state.board = EmptyBoard
    /\ page.state.turn = "X"
    /\ page.state.status = "ACTIVE"
    /\ page.state.moves = 0

====
